---- MODULE Spec2Model ----
(***************************************************************************)
(* Model of outlook-msg-parser: the Message record (models/message.go),    *)
(* its property dispatcher SetProperties, the body candidate validator and *)
(* finalization, and the decode drivers that feed it (parsemsg.go and the  *)
(* msgparser source kept in test/msgparser_test.go).                       *)
(*                                                                         *)
(* A Go string is a sequence of characters; a character is a token (a      *)
(* one-character TLA+ string, or a name for a character that has no        *)
(* printable form).  len() of a Go string is its length in BYTES.          *)
(***************************************************************************)
EXTENDS Integers, Sequences, FiniteSets, TLC

VARIABLES res, pc, impl, call, nentries, nfinal, f, debug, trace

vars == <<res, pc, impl, call, nentries, nfinal, f, debug, trace>>

----------------------------------------------------------------------------
(* Characters and strings                                                  *)

LowerCase == {"a","b","c","d","e","f","g","h","i","j","k","l","m",
              "n","o","p","q","r","s","t","u","v","w","x","y","z"}

UpperCase == {"A","B","C","D","E","F","G","H","I","J","K","L","M",
              "N","O","P","Q","R","S","T","U","V","W","X","Y","Z"}

\* "e'" is U+00E9 (two bytes in UTF-8), a letter outside ASCII.
IsLetter(r) == r \in LowerCase \cup UpperCase \cup {"e'"}

IsDigit(r) == r \in {"0","1","2","3","4","5","6","7","8","9"}

\* "LF", "CR", "TAB" are the characters '\n', '\r', '\t'.
IsSpace(r) == r \in {" ", "LF", "CR", "TAB"}

\* The literal of message.go:674.
CommonPunctuation == {",", ".", ";", ":", "!", "?", "(", ")", "[", "]", "{", "}",
                      "-", "_", "'", "DQUOTE", "/", "@", "#", "%", "&", "$", "*"}

\* "NUL" and "BEL" are control characters U+0000 and U+0007; "U+FFFD" is the
\* Unicode replacement character (a symbol: printable, three bytes).
ControlChars == {"NUL", "BEL"}

IsPrint(r) == r \notin ControlChars \cup {"LF", "CR", "TAB"}

ByteLen(r) == IF r = "e'" THEN 2 ELSE IF r = "U+FFFD" THEN 3 ELSE 1

RECURSIVE GoLen(_)
GoLen(s) == IF s = <<>> THEN 0 ELSE ByteLen(Head(s)) + GoLen(Tail(s))

HasPrefixAt(s, sub, i) ==
    /\ i + Len(sub) - 1 <= Len(s)
    /\ \A k \in 1..Len(sub) : s[i + k - 1] = sub[k]

Contains(s, sub) == \E i \in 1..(Len(s) + 1) : HasPrefixAt(s, sub, i)

RECURSIVE TrimLeft(_)
TrimLeft(s) == IF s # <<>> /\ IsSpace(Head(s)) THEN TrimLeft(Tail(s)) ELSE s

RECURSIVE TrimRight(_)
TrimRight(s) ==
    IF s # <<>> /\ IsSpace(s[Len(s)]) THEN TrimRight(SubSeq(s, 1, Len(s) - 1)) ELSE s

TrimSpace(s) == TrimRight(TrimLeft(s))

RECURSIVE Count(_, _)
Count(s, r) == IF s = <<>> THEN 0
               ELSE (IF Head(s) = r THEN 1 ELSE 0) + Count(Tail(s), r)

----------------------------------------------------------------------------
(* CleanAndAcceptBodyCandidate                                             *)

Kept(r) == IsPrint(r) \/ r \in {"LF", "CR", "TAB"}

NonLetter(r) ==
    ~(IsLetter(r) \/ IsDigit(r) \/ IsSpace(r) \/ r \in CommonPunctuation)

MaxAllowed(length) ==
    IF length < 50 THEN length \div 5
    ELSE IF length < 500 THEN length \div 10
    ELSE length \div 20

Rejected == [ok |-> FALSE, cleaned |-> <<>>]

\* Mutant of CleanAndAcceptBodyCandidate: the length is not tested
CleanAndAcceptBodyCandidateAnyLength(input, minLen) ==
    LET cleaned == TrimSpace(input)
        final == SelectSeq(cleaned, Kept)
        total == Len(final)
        nonLetter == Len(SelectSeq(final, NonLetter))
        replacementCount == Count(final, "U+FFFD")
        length == GoLen(final)
    IN  IF Contains(cleaned, <<"/","O","=">>) /\ Contains(cleaned, <<"/","C","N","=">>)
        THEN Rejected
        ELSE IF total = 0 \/ nonLetter * 5 > total * 2 THEN Rejected
        ELSE IF length > 0 /\ replacementCount > MaxAllowed(length) /\ replacementCount > 2
             THEN Rejected
        ELSE [ok |-> TRUE, cleaned |-> final]

CleanAndAcceptBodyCandidate(input, minLen) ==
    LET cleaned == TrimSpace(input)
        final == SelectSeq(cleaned, Kept)
        total == Len(final)
        nonLetter == Len(SelectSeq(final, NonLetter))
        replacementCount == Count(final, "U+FFFD")
        length == GoLen(final)
    IN  IF GoLen(cleaned) < minLen THEN Rejected
        ELSE IF Contains(cleaned, <<"/","O","=">>) /\ Contains(cleaned, <<"/","C","N","=">>)
             THEN Rejected
        \* float64(nonLetter)/float64(total) > 0.4
        ELSE IF total = 0 \/ nonLetter * 5 > total * 2 THEN Rejected
        ELSE IF length > 0 /\ replacementCount > MaxAllowed(length) /\ replacementCount > 2
             THEN Rejected
        ELSE [ok |-> TRUE, cleaned |-> final]

----------------------------------------------------------------------------
(* isValidEmail                                                            *)

AsciiLetter(r) == r \in LowerCase \cup UpperCase

LocalChar(r) == AsciiLetter(r) \/ IsDigit(r) \/ r \in {".", "_", "%", "+", "-"}

LabelChar(r) == AsciiLetter(r) \/ IsDigit(r) \/ r = "-"

\* ^[a-zA-Z0-9._%+\-]+@[a-zA-Z0-9-]+(\.[a-zA-Z0-9-]+)*\.[a-zA-Z]{2,}$
\* The local part holds no "@" and a label no ".", so the "@" and the last "."
\* of a match are the only "@" and the last "." of the string.
MatchesEmailRegexp(email) ==
    \E at \in 1..Len(email) : \E dot \in (at + 1)..Len(email) :
        LET local == SubSeq(email, 1, at - 1)
            labels == SubSeq(email, at + 1, dot - 1)
            top == SubSeq(email, dot + 1, Len(email))
        IN  /\ email[at] = "@"
            /\ email[dot] = "."
            /\ Len(local) >= 1 /\ (\A k \in 1..Len(local) : LocalChar(local[k]))
            /\ Len(top) >= 2 /\ (\A k \in 1..Len(top) : AsciiLetter(top[k]))
            /\ Len(labels) >= 1
            /\ \A k \in 1..Len(labels) : LabelChar(labels[k]) \/ labels[k] = "."
            /\ labels[1] # "." /\ labels[Len(labels)] # "."
            /\ \A k \in 1..(Len(labels) - 1) : ~(labels[k] = "." /\ labels[k + 1] = ".")

\* Mutant of isValidEmail: ">=" for ">" in the test of the length
isValidEmailBelow60(email) ==
    IF GoLen(email) > 0 /\ GoLen(email) >= 60 THEN FALSE
    ELSE MatchesEmailRegexp(email)

isValidEmail(email) ==
    IF GoLen(email) > 0 /\ GoLen(email) > 60 THEN FALSE
    ELSE MatchesEmailRegexp(email)

\* strings.Split(s, ","): the texts between the commas of s
RECURSIVE SplitAtCommas(_, _)
SplitAtCommas(s, cur) ==
    IF s = <<>> THEN <<cur>>
    ELSE IF Head(s) = "," THEN <<cur>> \o SplitAtCommas(Tail(s), <<>>)
    ELSE SplitAtCommas(Tail(s), Append(cur, Head(s)))

\* ValidateEmailList: every element of the comma-separated list, trimmed, is
\* a valid address
ValidateEmailList(emailList) ==
    LET emails == SplitAtCommas(emailList, <<>>)
    IN  \A k \in 1..Len(emails) : isValidEmail(TrimSpace(emails[k]))

----------------------------------------------------------------------------
(* Bytes of a string (UTF-8), for the cases that read a []uint8 as numbers *)

\* The printable ASCII characters in code order, from U+0020 on.
AsciiTable ==
    <<" ", "!", "DQUOTE", "#", "$", "%", "&", "'", "(", ")", "*", "+", ",", "-", ".", "/",
      "0", "1", "2", "3", "4", "5", "6", "7", "8", "9", ":", ";", "<", "=", ">", "?",
      "@", "A", "B", "C", "D", "E", "F", "G", "H", "I", "J", "K", "L", "M", "N", "O",
      "P", "Q", "R", "S", "T", "U", "V", "W", "X", "Y", "Z", "[", "BACKSLASH", "]", "^", "_",
      "BACKTICK", "a", "b", "c", "d", "e", "f", "g", "h", "i", "j", "k", "l", "m", "n", "o",
      "p", "q", "r", "s", "t", "u", "v", "w", "x", "y", "z", "{", "|", "}", "~">>

Utf8(r) ==
    CASE r = "NUL" -> <<0>>
      [] r = "BEL" -> <<7>>
      [] r = "TAB" -> <<9>>
      [] r = "LF" -> <<10>>
      [] r = "CR" -> <<13>>
      [] r = "e'" -> <<195, 169>>
      [] r = "U+FFFD" -> <<239, 191, 189>>
      [] OTHER -> <<31 + (CHOOSE i \in 1..Len(AsciiTable) : AsciiTable[i] = r)>>

RECURSIVE BytesOf(_)
BytesOf(s) == IF s = <<>> THEN <<>> ELSE Utf8(Head(s)) \o BytesOf(Tail(s))

\* int32(binary.LittleEndian.Uint32(b)), for len(b) >= 4
Int32LE(b) ==
    b[1] + 256 * b[2] + 65536 * b[3] + 16777216 * (IF b[4] >= 128 THEN b[4] - 256 ELSE b[4])

----------------------------------------------------------------------------
(* Property ids and decoded values                                         *)

\* H(a,b,c,d) is the number written 0xabcd in the source.
H(a, b, c, d) == ((a * 16 + b) * 16 + c) * 16 + d

HexDigits == <<"0","1","2","3","4","5","6","7","8","9","a","b","c","d","e","f">>

UpperHexDigits == <<"0","1","2","3","4","5","6","7","8","9","A","B","C","D","E","F">>

IsHexDigit(r) == \E i \in 1..16 : HexDigits[i] = r \/ UpperHexDigits[i] = r

HexValue(r) == (CHOOSE i \in 1..16 : HexDigits[i] = r \/ UpperHexDigits[i] = r) - 1

RECURSIVE HexNumber(_)
HexNumber(s) == IF s = <<>> THEN 0 ELSE HexNumber(SubSeq(s, 1, Len(s) - 1)) * 16 + HexValue(s[Len(s)])

RECURSIVE StripZeros(_)
StripZeros(s) == IF s # <<>> /\ Head(s) = "0" THEN StripZeros(Tail(s)) ELSE s

MaxInt32 == 2147483647

\* strconv.ParseInt(name, 16, 32): the value, 0 on a syntax error, the nearest
\* int32 on a range error (SetProperties only logs the error).
ParseInt(name) ==
    LET signed == name # <<>> /\ Head(name) \in {"+", "-"}
        neg == signed /\ Head(name) = "-"
        digits == IF signed THEN Tail(name) ELSE name
        valid == digits # <<>> /\ \A k \in 1..Len(digits) : IsHexDigit(digits[k])
        sig == StripZeros(digits)
        range == Len(sig) > 8 \/ (Len(sig) = 8 /\ HexValue(sig[1]) >= 8)
    IN  IF ~valid THEN 0
        ELSE IF range THEN (IF neg THEN -MaxInt32 - 1 ELSE MaxInt32)
        ELSE IF neg THEN -HexNumber(sig) ELSE HexNumber(sig)

\* An interface{} value: its dynamic type, and the value in the field of its
\* type (s: the characters of a string or of string([]uint8); t: an integer,
\* a bool as 0/1, or a time.Time as its offset from the zero time.Time;
\* ss: the elements of a []string).
StringData(s) == [shape |-> "string", s |-> s, t |-> 0, ss |-> <<>>]

BytesData(s) == [shape |-> "[]uint8", s |-> s, t |-> 0, ss |-> <<>>]

TimeData(t) == [shape |-> "time.Time", s |-> <<>>, t |-> t, ss |-> <<>>]

Int32Data(n) == [shape |-> "int32", s |-> <<>>, t |-> n, ss |-> <<>>]

BoolData(b) == [shape |-> "bool", s |-> <<>>, t |-> IF b THEN 1 ELSE 0, ss |-> <<>>]

StringsData(ss) == [shape |-> "[]string", s |-> <<>>, t |-> 0, ss |-> ss]

\* time.Time{}: the instant January 1, year 1, 00:00:00 UTC
ZeroTime == 0

IsZero(t) == t = ZeroTime

RECURSIVE Join(_, _)
Join(ss, sep) ==
    IF ss = <<>> THEN <<>>
    ELSE IF Len(ss) = 1 THEN ss[1]
    ELSE ss[1] \o sep \o Join(Tail(ss), sep)

AttachmentPrefix == <<"_", "_", "a", "t", "t", "a", "c", "h", "_">>

----------------------------------------------------------------------------
(* Message                                                                 *)

\* &models.Message{}
NewMessage ==
    [MessageClass |-> <<>>, MessageID |-> <<>>, Subject |-> <<>>,
     FromEmail |-> <<>>, FromName |-> <<>>,
     ToDisplay |-> <<>>, To |-> <<>>, CCDisplay |-> <<>>, BCCDisplay |-> <<>>,
     CC |-> <<>>, BCC |-> <<>>,
     BodyPlainText |-> <<>>, BodyHTML |-> <<>>, ConvertedBodyHTML |-> <<>>,
     Headers |-> <<>>,
     Date |-> ZeroTime, ClientSubmitTime |-> ZeroTime,
     CreationDate |-> ZeroTime, LastModificationDate |-> ZeroTime,
     Attachments |-> <<>>, Properties |-> <<>>,
     TransportMessageHeaders |-> <<>>, Address |-> <<>>, LastRecipient |-> 0,
     bodyCandidates |-> <<>>, htmlCandidates |-> <<>>]

\* res.Properties[class] = v
PutProperty(props, class, v) ==
    [k \in DOMAIN props \cup {class} |-> IF k = class THEN v ELSE props[k]]

----------------------------------------------------------------------------
(* SetProperties                                                           *)

\* The call returned, leaving the record m.
Returned(m) == [res |-> m, panic |-> FALSE]

\* An unchecked type assertion data.(T) failed, or an index was out of range:
\* the goroutine panics; nothing was written to the record before that.
Panicked(m) == [res |-> m, panic |-> TRUE]

\* Mutant of FirstWinsString: the test for an unset field is left out
LastWinsString(m, field, data) ==
    IF data.shape = "string" THEN Returned([m EXCEPT ![field] = data.s]) ELSE Panicked(m)

\* if res.F == "" { res.F = data.(string) }
FirstWinsString(m, field, data) ==
    IF m[field] = <<>>
    THEN IF data.shape = "string" THEN Returned([m EXCEPT ![field] = data.s])
         ELSE Panicked(m)
    ELSE Returned(m)

\* if res.F.IsZero() { res.F = data.(time.Time) }
FirstWinsTime(m, field, data) ==
    IF IsZero(m[field])
    THEN IF data.shape = "time.Time" THEN Returned([m EXCEPT ![field] = data.t])
         ELSE Panicked(m)
    ELSE Returned(m)

\* The display-name cases and 0x007D: []uint8 or string, set if still empty.
FirstWinsText(m, field, data) ==
    IF data.shape \in {"[]uint8", "string"}
    THEN IF m[field] = <<>> THEN Returned([m EXCEPT ![field] = data.s]) ELSE Returned(m)
    ELSE Returned(m)

Semicolon == <<";", " ">>

CommaSpace == <<",", " ">>

\* Mutant of SenderEmail: a further value is put after the existing content
SenderEmailAppending(m, data) ==
    IF data.shape # "string" THEN Panicked(m)
    ELSE IF isValidEmail(data.s)
         THEN IF m.FromEmail = <<>> THEN Returned([m EXCEPT !.FromEmail = data.s])
              ELSE IF ~Contains(m.FromEmail, data.s)
                   THEN Returned([m EXCEPT !.FromEmail = @ \o CommaSpace \o data.s])
                   ELSE Returned(m)
         ELSE Returned(m)

\* case 0xc1f
SenderEmail(m, data) ==
    IF data.shape # "string" THEN Panicked(m)
    ELSE IF isValidEmail(data.s)
         THEN IF m.FromEmail = <<>> THEN Returned([m EXCEPT !.FromEmail = data.s])
              ELSE IF ~Contains(m.FromEmail, data.s)
                   THEN Returned([m EXCEPT !.FromEmail = data.s \o CommaSpace \o @])
                   ELSE Returned(m)
         ELSE Returned(m)

\* case 0x65
SentRepresentingEmail(m, data) ==
    IF data.shape # "string" THEN Panicked(m)
    ELSE IF m.FromEmail = <<>> /\ isValidEmail(data.s)
         THEN Returned([m EXCEPT !.FromEmail = data.s])
         ELSE IF ~Contains(m.FromEmail, data.s)
              THEN Returned([m EXCEPT !.FromEmail = data.s \o CommaSpace \o @])
              ELSE Returned(m)

\* Mutant of CollectCandidate: an accepted value is also written to the body
\* field of its kind
CollectCandidateWriting(m, field, data) ==
    IF data.shape \in {"[]uint8", "string"}
    THEN LET c == CleanAndAcceptBodyCandidate(data.s, 10)
             target == IF field = "bodyCandidates" THEN "BodyPlainText" ELSE "BodyHTML"
         IN  IF c.ok
             THEN Returned([m EXCEPT ![field] = Append(@, c.cleaned), ![target] = c.cleaned])
             ELSE Returned(m)
    ELSE Returned(m)

\* The body and HTML cases: []uint8 or string, validated, appended.
CollectCandidate(m, field, data) ==
    IF data.shape \in {"[]uint8", "string"}
    THEN LET c == CleanAndAcceptBodyCandidate(data.s, 10)
         IN  IF c.ok THEN Returned([m EXCEPT ![field] = Append(@, c.cleaned)])
             ELSE Returned(m)
    ELSE Returned(m)

\* case 0x3003, 0xC025, 0x39FE with a []uint8 value
AddressFromBytes(m, address) ==
    IF isValidEmail(address)
    THEN LET a == [m EXCEPT !.Address = Append(@, address)]
         IN  IF m.LastRecipient = 0 THEN [a EXCEPT !.To = @ \o address \o Semicolon]
             ELSE IF m.LastRecipient = 1 THEN [a EXCEPT !.CC = @ \o address \o Semicolon]
             ELSE IF m.LastRecipient = 2 THEN [a EXCEPT !.BCC = @ \o address \o Semicolon]
             ELSE a
    ELSE m

\* case 0x3003, 0xC025, 0x39FE with a string value
AddressFromString(m, strData) ==
    IF isValidEmail(strData)
    THEN LET a == [m EXCEPT !.Address = Append(@, strData)]
         IN  IF ~Contains(m.To, strData) THEN [a EXCEPT !.To = @ \o strData \o Semicolon]
             ELSE a
    ELSE m

AddressProperty(m, data) ==
    IF data.shape = "[]uint8" THEN Returned(AddressFromBytes(m, data.s))
    ELSE IF data.shape = "string" THEN Returned(AddressFromString(m, data.s))
    ELSE Returned(m)

BodyIds == {H(1,0,0,0), H(3,15,15,9), H(6,5,14,0), H(6,5,14,2), H(0,15,15,9), H(1,2,0,11)}

HtmlIds == {H(1,0,0,1), H(1,0,1,3), H(3,15,15,11), H(6,5,14,1), H(6,5,14,3),
            H(5,15,15,7), H(0,12,2,5), H(0,15,0,3)}

AddressIds == {H(3,0,0,3), H(12,0,2,5), H(3,9,15,14)}

\* []uint8 stored as it is, overwriting
BytesOverwriteIds == {H(0,0,0,2), H(0,0,0,3), H(0,0,0,4), H(1,0,0,3), H(1,0,0,4),
                      H(0,0,3,11), H(0,0,4,1), H(0,12,1,9), H(0,12,1,13), H(0,15,15,15)}

\* string([]uint8) stored if the key is not populated
BytesAsStringOnceIds == {H(1,0,0,2), H(0,15,15,6)}

\* byteData[0] != 0 stored if the key is not populated
BytesAsBoolOnceIds == {H(1,0,0,8), H(1,0,0,9), H(3,0,0,11)}

\* int32(LittleEndian.Uint32(byteData)) stored if the key is not populated
BytesAsInt32OnceIds == {H(1,0,1,4), H(1,0,1,5), H(0,0,3,15), H(0,0,5,1), H(0,0,7,1)}

\* []uint8 (as a string) or string stored, overwriting
TextOverwriteIds == {H(3,7,0,1), H(3,7,0,2), H(3,7,1,13),
                     H(1,0,1,0), H(1,0,1,2), H(1,0,1,13), H(3,0,1,9), H(3,0,1,11), H(8,0,2,1),
                     H(1,0,0,10), H(8,0,1,1), H(8,0,2,5), H(8,0,2,13)}

\* []string (joined) or string stored, overwriting
JoinedOverwriteIds == {H(8,0,0,4), H(8,0,0,5)}

\* "Documented but not implemented", and 0x0C24
\* Mutant of SkipIds: the body metadata identifiers have no case
SkipIdsWithoutBodyMetadata ==
    {H(0,0,4,3), H(0,0,5,2), H(0,14,0,11), H(0,14,4,11), H(0,14,4,12), H(0,14,5,8),
     H(0,14,5,9), H(3,0,1,3), H(3,0,1,4), H(8,0,0,0), H(8,0,0,7), H(8,0,0,8),
     H(8,0,0,11), H(8,0,2,12), H(8,0,2,14), H(0,12,2,4)}

SkipIds == {H(1,0,0,5), H(1,0,0,6), H(1,0,0,7), H(1,0,0,11), H(1,0,0,12), H(1,0,0,13),
            H(1,0,0,15), H(1,0,1,1), H(1,0,1,6), H(1,0,1,7), H(1,0,1,8), H(1,0,1,9),
            H(1,0,1,10), H(1,0,1,11), H(1,0,1,12), H(1,0,1,14), H(0,0,4,3), H(0,0,5,2),
            H(0,14,0,11), H(0,14,4,11), H(0,14,4,12), H(0,14,5,8), H(0,14,5,9),
            H(3,0,1,3), H(3,0,1,4), H(8,0,0,0), H(8,0,0,7), H(8,0,0,8), H(8,0,0,11),
            H(8,0,2,12), H(8,0,2,14), H(0,12,2,4)}

\* Mutant of GenericBag: the value is stored whatever its dynamic type
GenericBagAnyType(m, class, data) ==
    IF class = 0 THEN Returned(m)
    ELSE IF class \notin DOMAIN m.Properties
         THEN Returned([m EXCEPT !.Properties = PutProperty(@, class, data)])
         ELSE Returned(m)

\* The default case: an id without a case of its own
GenericBag(m, class, data) ==
    IF class = 0 THEN Returned(m)
    ELSE IF class \notin DOMAIN m.Properties /\ data.shape = "string"
         THEN Returned([m EXCEPT !.Properties = PutProperty(@, class, data)])
         ELSE Returned(m)

SetProperties(m, msgProps) ==
    LET name == msgProps.Class
        data == msgProps.Data
        class == ParseInt(name)
        isBytes == data.shape = "[]uint8"
        isString == data.shape = "string"
        has == class \in DOMAIN m.Properties
        put(v) == Returned([m EXCEPT !.Properties = PutProperty(@, class, v)])
    IN  IF HasPrefixAt(name, AttachmentPrefix, 1) THEN Returned(m)
        ELSE CASE class = H(0,0,1,10) -> FirstWinsString(m, "MessageClass", data)
               [] class = H(1,0,3,5) -> FirstWinsString(m, "MessageID", data)
               [] class = H(0,0,3,7) -> FirstWinsString(m, "Subject", data)
               [] class = H(0,14,1,13) -> FirstWinsString(m, "Subject", data)
               [] class = H(0,12,1,15) -> SenderEmail(m, data)
               [] class = H(0,0,6,5) -> SentRepresentingEmail(m, data)
               [] class = H(3,15,15,10) -> FirstWinsString(m, "FromName", data)
               [] class \in BodyIds -> CollectCandidate(m, "bodyCandidates", data)
               [] class \in HtmlIds -> CollectCandidate(m, "htmlCandidates", data)
               [] class = H(3,0,0,7) -> FirstWinsTime(m, "CreationDate", data)
               [] class = H(3,0,0,8) -> FirstWinsTime(m, "LastModificationDate", data)
               [] class = H(0,14,0,6) -> FirstWinsTime(m, "ClientSubmitTime", data)
               [] class = H(0,14,0,15) -> FirstWinsTime(m, "Date", data)
               [] class \in BytesOverwriteIds -> IF isBytes THEN put(data) ELSE Returned(m)
               [] class \in BytesAsStringOnceIds ->
                    IF ~has /\ isBytes THEN put(StringData(data.s)) ELSE Returned(m)
               [] class \in BytesAsBoolOnceIds ->
                    IF ~has /\ isBytes
                    THEN IF data.s = <<>> THEN Panicked(m)
                         ELSE put(BoolData(BytesOf(data.s)[1] # 0))
                    ELSE Returned(m)
               [] class \in BytesAsInt32OnceIds ->
                    IF ~has /\ isBytes
                    THEN IF Len(BytesOf(data.s)) < 4 THEN Panicked(m)
                         ELSE put(Int32Data(Int32LE(BytesOf(data.s))))
                    ELSE Returned(m)
               [] class \in {H(0,14,0,4), H(8,0,0,13)} -> FirstWinsText(m, "ToDisplay", data)
               [] class \in {H(0,14,0,3), H(8,0,0,14)} -> FirstWinsText(m, "CCDisplay", data)
               [] class \in {H(0,14,0,2), H(8,0,0,15)} -> FirstWinsText(m, "BCCDisplay", data)
               [] class = H(8,0,0,2) ->
                    IF data.shape \in {"[]string", "string"} THEN put(data) ELSE Returned(m)
               [] class \in SkipIds -> Returned(m)
               [] class = H(4,0,9,9) ->
                    IF data.shape = "int32" THEN put(data) ELSE Returned(m)
               [] class = H(0,0,7,13) -> FirstWinsText(m, "TransportMessageHeaders", data)
               [] class \in AddressIds -> AddressProperty(m, data)
               [] class \in TextOverwriteIds ->
                    IF isBytes \/ isString THEN put(StringData(data.s)) ELSE Returned(m)
               [] class \in JoinedOverwriteIds ->
                    IF data.shape = "[]string" THEN put(StringData(Join(data.ss, CommaSpace)))
                    ELSE IF isString THEN put(data)
                    ELSE Returned(m)
               [] OTHER -> GenericBag(m, class, data)

----------------------------------------------------------------------------
(* CalculateFinalBody                                                      *)

RECURSIVE LongestFromLastWins(_, _)
\* Mutant of LongestFrom: ">=" for ">", so that the last of equal lengths wins
LongestFromLastWins(best, rest) ==
    IF rest = <<>> THEN best
    ELSE LongestFromLastWins(IF GoLen(Head(rest)) >= GoLen(best) THEN Head(rest) ELSE best,
                             Tail(rest))

RECURSIVE LongestFrom(_, _)
\* for _, h := range cands[1:] { if len(h) > len(best) { best = h } }
LongestFrom(best, rest) ==
    IF rest = <<>> THEN best
    ELSE LongestFrom(IF GoLen(Head(rest)) > GoLen(best) THEN Head(rest) ELSE best, Tail(rest))

Longest(cands) == LongestFrom(cands[1], Tail(cands))

NoContent == <<"N", "o", " ", "c", "o", "n", "t", "e", "n", "t", " ", "a", "v", "a", "i", "l", "a", "b", "l", "e">>

\* message.go:743-763
SelectBodies(m) ==
    LET h == IF Len(m.htmlCandidates) > 0
             THEN [m EXCEPT !.BodyHTML = Longest(m.htmlCandidates)] ELSE m
    IN  IF Len(h.bodyCandidates) > 0
        THEN [h EXCEPT !.BodyPlainText = Longest(h.bodyCandidates)] ELSE h

\* Mutant of CrossFill: the copy of the HTML into the plain text is left out
CrossFillHtmlOnly(m) ==
    IF GoLen(m.BodyPlainText) > 0 /\ GoLen(m.BodyHTML) = 0
    THEN [m EXCEPT !.BodyHTML = m.BodyPlainText] ELSE m

\* message.go:765-772
CrossFill(m) ==
    LET h == IF GoLen(m.BodyPlainText) > 0 /\ GoLen(m.BodyHTML) = 0
             THEN [m EXCEPT !.BodyHTML = m.BodyPlainText] ELSE m
    IN  IF GoLen(h.BodyHTML) > 0 /\ GoLen(h.BodyPlainText) = 0
        THEN [h EXCEPT !.BodyPlainText = h.BodyHTML] ELSE h

\* Mutant of FillNoContent: "If neither is present, both fields remain empty"
FillNoContentLeavesEmpty(m) == m

\* Mutant of FillNoContent: the test for two empty bodies is left out
FillNoContentAlways(m) == [m EXCEPT !.BodyPlainText = NoContent, !.BodyHTML = NoContent]

\* message.go:773-777
FillNoContent(m) ==
    IF GoLen(m.BodyPlainText) = 0 /\ GoLen(m.BodyHTML) = 0
    THEN [m EXCEPT !.BodyPlainText = NoContent, !.BodyHTML = NoContent]
    ELSE m

\* Mutant of CalculateFinalBody: the bodies are computed afresh from the lists,
\* which the call consumes
CalculateFinalBodyFromScratch(m) ==
    [FillNoContent(CrossFill(SelectBodies([m EXCEPT !.BodyPlainText = <<>>, !.BodyHTML = <<>>])))
        EXCEPT !.bodyCandidates = <<>>, !.htmlCandidates = <<>>]

\* Mutant of CalculateFinalBody: the lists are cleared once the bodies are set
CalculateFinalBodyClearing(m) ==
    [FillNoContent(CrossFill(SelectBodies(m)))
        EXCEPT !.bodyCandidates = <<>>, !.htmlCandidates = <<>>]

CalculateFinalBody(m) == FillNoContent(CrossFill(SelectBodies(m)))

----------------------------------------------------------------------------
(* The recipient-index tracker (msgparser)                                 *)

RecepientStreamPrefix == <<"_", "_", "r", "e", "c", "i", "p", "_", "v", "e", "r", "s", "i", "o", "n", "1", ".", "0", "_">>

IsDecimal(r) == IsDigit(r)

RECURSIVE DecNumber(_)
DecNumber(s) ==
    IF s = <<>> THEN 0
    ELSE DecNumber(SubSeq(s, 1, Len(s) - 1)) * 10
         + (CHOOSE d \in 0..9 : HexDigits[d + 1] = s[Len(s)])

\* strconv.Atoi: an optional sign and decimal digits.  (A range error needs 19
\* digits or more; the names of a container carry 8.)
Atoi(s) ==
    LET signed == s # <<>> /\ Head(s) \in {"+", "-"}
        digits == IF signed THEN Tail(s) ELSE s
        valid == digits # <<>> /\ \A k \in 1..Len(digits) : IsDecimal(digits[k])
        n == DecNumber(StripZeros(digits))
    IN  IF ~valid THEN [err |-> TRUE, n |-> 0]
        ELSE [err |-> FALSE, n |-> IF signed /\ Head(s) = "-" THEN -n ELSE n]

\* Mutant of processRecipientStream: ordinal zero is stored like any other
processRecipientStreamZeroStored(path0, m) ==
    IF Len(path0) < Len(RecepientStreamPrefix) + 1 THEN Panicked(m)
    ELSE LET recipientID == Atoi(SubSeq(path0, Len(RecepientStreamPrefix) + 2, Len(path0)))
         IN  IF recipientID.err THEN Returned(m)
             ELSE Returned([m EXCEPT !.LastRecipient = recipientID.n])

\* Mutant of processRecipientStream: a storage whose ordinal is not a number
\* puts the cursor back to zero
processRecipientStreamResetting(path0, m) ==
    IF Len(path0) < Len(RecepientStreamPrefix) + 1 THEN Panicked(m)
    ELSE LET recipientID == Atoi(SubSeq(path0, Len(RecepientStreamPrefix) + 2, Len(path0)))
         IN  IF recipientID.err THEN Returned([m EXCEPT !.LastRecipient = 0])
             ELSE IF recipientID.n # 0
                  THEN Returned([m EXCEPT !.LastRecipient = recipientID.n])
                  ELSE Returned(m)

\* processRecipientStream: entry.Path[0][len("__recip_version1.0_#"):] is out of
\* range when Path[0] is shorter than the 20 characters sliced off.
processRecipientStream(path0, m) ==
    IF Len(path0) < Len(RecepientStreamPrefix) + 1 THEN Panicked(m)
    ELSE LET recipientIDStr == SubSeq(path0, Len(RecepientStreamPrefix) + 2, Len(path0))
             recipientID == Atoi(recipientIDStr)
         IN  IF recipientID.err THEN Returned(m)
             ELSE IF recipientID.n # 0
                  THEN Returned([m EXCEPT !.LastRecipient = recipientID.n])
                  ELSE Returned(m)

\* The outcome r of a step with the number of lines it wrote under "if debug"
Traced(r, lines) == [res |-> r.res, panic |-> r.panic, trace |-> lines]

\* processPropertyStream (msgparser): the tracker, then the dispatcher.  With
\* debug it logs the property, and the path of an entry outside the
\* recipient storages.
processPropertyStream(entry, m, dbg) ==
    LET recipient == Len(entry.Path) > 0 /\ Contains(entry.Path[1], RecepientStreamPrefix)
        r == IF recipient THEN processRecipientStream(entry.Path[1], m) ELSE Returned(m)
        lines == IF ~dbg THEN 0 ELSE IF recipient THEN 1 ELSE 2
    IN  Traced(IF r.panic THEN r ELSE SetProperties(r.res, entry.Prop), lines)

----------------------------------------------------------------------------
(* The value decoder: parseEntryName and extractData                       *)

\* A stream's content is a sequence of bytes, 0..255; a uint64 is its eight
\* bytes, least significant first.

\* a / d for a uint64 a and a divisor d below 2^23, from the top byte down
RECURSIVE DivU64(_, _, _)
DivU64(a, d, rem) ==
    IF a = <<>> THEN <<>>
    ELSE LET cur == rem * 256 + a[Len(a)]
         IN  Append(DivU64(SubSeq(a, 1, Len(a) - 1), d, cur % d), cur \div d)

\* a - c modulo 2^64 (Go's unsigned subtraction wraps around)
RECURSIVE SubU64(_, _, _)
SubU64(a, c, borrow) ==
    IF a = <<>> THEN <<>>
    ELSE LET t == a[1] - c[1] - borrow
         IN  <<(t + 256) % 256>> \o SubU64(Tail(a), Tail(c), IF t < 0 THEN 1 ELSE 0)

\* a * k modulo 2^64 (Go's int64 multiplication wraps around), for k below 2^23
RECURSIVE MulU64(_, _, _)
MulU64(a, k, carry) ==
    IF a = <<>> THEN <<>>
    ELSE LET t == a[1] * k + carry
         IN  <<t % 256>> \o MulU64(Tail(a), k, t \div 256)

\* 11644473600000, the milliseconds from 1601-01-01 to 1970-01-01
EpochDifference == <<0, 104, 182, 48, 151, 10, 0, 0>>

\* int64(time.Millisecond)
Millisecond == 1000000

\* The nanoseconds handed to time.Unix(0, _) for the tick count in buf:
\* a /= 10000; a -= 11644473600000; int64(a) * int64(time.Millisecond)
UnixNano(buf) == MulU64(SubU64(DivU64(buf, 10000, 0), EpochDifference, 0), Millisecond, 0)

\* Two hexadecimal digits of a byte
Hex2(b) == <<HexDigits[(b \div 16) + 1], HexDigits[(b % 16) + 1]>>

\* The bytes of b from index hi down to index lo, in hexadecimal
RECURSIVE HexDown(_, _, _)
HexDown(b, hi, lo) == IF hi < lo THEN <<>> ELSE Hex2(b[hi]) \o HexDown(b, hi - 1, lo)

\* The bytes of b from index lo up to index hi, in hexadecimal
RECURSIVE HexUp(_, _, _)
HexUp(b, lo, hi) == IF hi < lo THEN <<>> ELSE Hex2(b[lo]) \o HexUp(b, lo + 1, hi)

\* time.Time.String(): the text of an instant in the local zone.  The text is
\* one-to-one on instants; it is written here as the word "time" and the
\* nanosecond count of the instant in hexadecimal.
TimeString(nsec) == <<"t", "i", "m", "e", ":">> \o HexDown(nsec, 8, 1)

\* fmt.Sprintf("%08x-%04x-%04x-%04x-%012x", ...) of a 16-byte buffer
GuidString(b) ==
    HexDown(b, 4, 1) \o <<"-">> \o HexDown(b, 6, 5) \o <<"-">> \o HexDown(b, 8, 7)
        \o <<"-">> \o HexUp(b, 9, 10) \o <<"-">> \o HexUp(b, 11, 16)

\* The character of a code point: ASCII, e with acute, and U+FFFD for a
\* surrogate half or U+FFFD itself (no other code point is used)
RuneString(v) ==
    CASE v = 0 -> "NUL"
      [] v = 7 -> "BEL"
      [] v = 9 -> "TAB"
      [] v = 10 -> "LF"
      [] v = 13 -> "CR"
      [] v \in 32..126 -> AsciiTable[v - 31]
      [] v = 233 -> "e'"
      [] v \in 55296..57343 \cup {65533} -> "U+FFFD"

\* string(b) for bytes below 128, which every charset of the PT_STRING8 case
\* decodes alike (contents with other bytes are not used)
RECURSIVE AsciiString(_)
AsciiString(b) ==
    IF b = <<>> THEN <<>>
    ELSE CASE Head(b) < 128 -> <<RuneString(Head(b))>> \o AsciiString(Tail(b))

\* The PT_UNICODE loop: one rune per pair of bytes, low byte first; a last
\* unpaired byte is not read
RECURSIVE Utf16String(_)
Utf16String(b) ==
    IF Len(b) < 2 THEN <<>>
    ELSE <<RuneString(b[2] * 256 + b[1])>> \o Utf16String(SubSeq(b, 3, Len(b)))

\* A buffer of n zero bytes after entry.Read: the first n bytes of the
\* content, zeros where the content is shorter
Buffer(b, n) == [k \in 1..n |-> IF k <= Len(b) THEN b[k] ELSE 0]

\* strings.Split(s, "\x00")
RECURSIVE Split(_, _)
Split(s, cur) ==
    IF s = <<>> THEN <<cur>>
    ELSE IF Head(s) = "NUL" THEN <<cur>> \o Split(Tail(s), <<>>)
    ELSE Split(Tail(s), Append(cur, Head(s)))

PropertyStreamPrefix == <<"_", "_", "s", "u", "b", "s", "t", "g", "1", ".", "0", "_">>

HasPrefix(s, prefix) == HasPrefixAt(s, prefix, 1)

\* models.MessageEntryProperty{}: the tag of a name that does not parse
EmptyTag == [Class |-> <<>>, Mapi |-> 0]

\* strconv.ParseInt(typeEntry, 16, 64) of the four characters of the value
\* type: an optional sign, then hexadecimal digits only
ParseMapi(typeEntry) ==
    LET signed == Head(typeEntry) \in {"+", "-"}
        digits == IF signed THEN Tail(typeEntry) ELSE typeEntry
        valid == \A k \in 1..Len(digits) : IsHexDigit(digits[k])
    IN  [err |-> ~valid,
         n |-> IF ~valid THEN 0
               ELSE IF Head(typeEntry) = "-" THEN -HexNumber(digits) ELSE HexNumber(digits)]

\* Mutant of parseEntryName: the error of strconv.ParseInt is not tested
parseEntryNameIgnoringError(name) ==
    IF HasPrefix(name, PropertyStreamPrefix)
    THEN LET val == SubSeq(name, Len(PropertyStreamPrefix) + 1, Len(name))
         IN  IF Len(val) < 8 THEN EmptyTag
             ELSE [Class |-> SubSeq(val, 1, 4), Mapi |-> ParseMapi(SubSeq(val, 5, 8)).n]
    ELSE EmptyTag

\* parseEntryName, for names of one-byte characters
parseEntryName(name) ==
    IF HasPrefix(name, PropertyStreamPrefix)
    THEN LET val == SubSeq(name, Len(PropertyStreamPrefix) + 1, Len(name))
         IN  IF Len(val) < 8 THEN EmptyTag
             ELSE LET mapi == ParseMapi(SubSeq(val, 5, 8))
                  IN  IF mapi.err THEN EmptyTag
                      ELSE [Class |-> SubSeq(val, 1, 4), Mapi |-> mapi.n]
    ELSE EmptyTag

\* fmt.Sprintf("%x", n)
RECURSIVE HexText(_)
HexText(n) ==
    IF n < 0 THEN <<"-">> \o HexText(-n)
    ELSE IF n < 16 THEN <<HexDigits[n + 1]>>
    ELSE HexText(n \div 16) \o <<HexDigits[(n % 16) + 1]>>

\* A value of a type whose content SetProperties never reads
OtherData(shape) == [shape |-> shape, s |-> <<>>, t |-> 0, ss |-> <<>>]

\* A value that extractData returned, or the panic of its slice expression
Extracted(data) == [data |-> data, panic |-> FALSE]

\* The text that PT_MV_STRING8 and PT_MV_UNICODE split at the terminators
SplitStrings(s) ==
    LET strs == Split(s, <<>>) IN StringsData(SubSeq(strs, 1, Len(strs) - 1))

\* extractData: the value of a stream with content bytes, by the value type of
\* its tag
extractData(bytes, info) ==
    IF info.Class = <<>> THEN Extracted(StringData(<<"c", "l", "a", "s", "s", " ", "n", "u", "l", "l">>))
    ELSE CASE info.Mapi = -1 -> Extracted(StringData(<<"-", "1">>))
           [] info.Mapi = 30 -> Extracted(StringData(AsciiString(bytes)))
           [] info.Mapi = 31 -> Extracted(StringData(Utf16String(bytes)))
           [] info.Mapi \in {258, 251, 4354, 4347} -> Extracted(BytesData(AsciiString(bytes)))
           [] info.Mapi = 64 ->
                IF Len(bytes) > 0
                THEN IF Len(bytes) < 8 THEN [data |-> StringData(<<>>), panic |-> TRUE]
                     ELSE Extracted(StringData(TimeString(UnixNano(SubSeq(bytes, 1, 8)))))
                ELSE Extracted(StringData(<<>>))
           [] info.Mapi = 2 -> Extracted(OtherData("int16"))
           [] info.Mapi = 3 -> Extracted(Int32Data(Int32LE(Buffer(bytes, 4))))
           [] info.Mapi = 4 -> Extracted(OtherData("float32"))
           [] info.Mapi \in {5, 7} -> Extracted(OtherData("float64"))
           [] info.Mapi \in {6, 20} -> Extracted(OtherData("int64"))
           [] info.Mapi = 11 -> Extracted(BoolData(Buffer(bytes, 2) # <<0, 0>>))
           [] info.Mapi = 72 -> Extracted(StringData(GuidString(Buffer(bytes, 16))))
           [] info.Mapi = 4098 -> Extracted(OtherData("[]int16"))
           [] info.Mapi = 4099 -> Extracted(OtherData("[]int32"))
           [] info.Mapi = 4100 -> Extracted(OtherData("[]float32"))
           [] info.Mapi \in {4101, 4103} -> Extracted(OtherData("[]float64"))
           [] info.Mapi = 4102 -> Extracted(OtherData("[]int64"))
           [] info.Mapi = 4160 -> Extracted(OtherData("[]time.Time"))
           [] info.Mapi = 4126 -> Extracted(SplitStrings(AsciiString(bytes)))
           [] info.Mapi = 4127 -> Extracted(SplitStrings(Utf16String(bytes)))
           [] info.Mapi = 4168 -> Extracted(OtherData("[]string"))
           [] OTHER -> Extracted(StringData(<<"d", "e", "f", "a", "u", "l", "t", " ", "m", "a", "p", "i", ":", " ">>
                                            \o HexText(info.Mapi)))

\* extractMessageProperty: the tag of the name with the value of the content
extractMessageProperty(name, bytes) ==
    LET analysis == parseEntryName(name)
        data == extractData(bytes, analysis)
    IN  [panic |-> data.panic,
         prop |-> [Class |-> analysis.Class, Mapi |-> analysis.Mapi, Data |-> data.data]]

----------------------------------------------------------------------------
(* The decode pass                                                         *)

\* The two sources of the decode pass in the repository: parsemsg.go, and the
\* msgparser source in test/msgparser_test.go (lines 49 on).
Impls == {"parsemsg", "msgparser"}

\* Mutant of processEntry: with debug, parsemsg prints the property in place
\* of dispatching it, and msgparser does not look at the entries of recipient
\* storages
processEntryDebugOnly(i, entry, m, dbg) ==
    IF i = "parsemsg"
    THEN IF ~entry.IsProperty THEN Traced(Returned(m), 0)
         ELSE IF entry.ExtractPanics THEN Traced(Panicked(m), 0)
         ELSE IF dbg THEN Traced(Returned(m), 1)
         ELSE Traced(SetProperties(m, entry.Prop), 0)
    ELSE LET first == IF dbg THEN 1 ELSE 0
         IN  IF ~entry.IsProperty
             THEN Traced(Returned(m),
                         IF ~dbg THEN 0 ELSE IF entry.Size # 0 THEN 3 ELSE 2)
             ELSE IF entry.ExtractPanics THEN Traced(Panicked(m), first)
             ELSE IF dbg /\ entry.Path # <<>> THEN Traced(Returned(m), first)
             ELSE LET r == processPropertyStream(entry, m, dbg)
                  IN  Traced(r, first + r.trace)

\* The body of the loop of processEntries for one entry.  An entry is given by
\* whether its name has PropertyStreamPrefix, its Path, and the
\* MessageEntryProperty that extractMessageProperty yields for it, or that
\* extractMessageProperty panics; an entry of another name also by its Size.
\* dbg is the debug flag; the lines written under it are counted.
processEntry(i, entry, m, dbg) ==
    IF i = "parsemsg"
    THEN IF ~entry.IsProperty THEN Traced(Returned(m), 0)
         ELSE IF entry.ExtractPanics THEN Traced(Panicked(m), 0)
         ELSE LET r == SetProperties(m, entry.Prop)
              IN  Traced(r, IF dbg /\ ~r.panic THEN 1 ELSE 0)
    ELSE LET first == IF dbg THEN 1 ELSE 0
         IN  IF ~entry.IsProperty
             THEN Traced(Returned(m),
                         IF ~dbg THEN 0 ELSE IF entry.Size # 0 THEN 3 ELSE 2)
             ELSE IF entry.ExtractPanics THEN Traced(Panicked(m), first)
             ELSE LET r == processPropertyStream(entry, m, dbg)
                  IN  Traced(r, first + r.trace)

\* What parseMsgFile does once doc.Next() has reported the end of the entries
parseMsgFileEnd(i, m) == IF i = "msgparser" THEN CalculateFinalBody(m) ELSE m

----------------------------------------------------------------------------
(* Entries of the container                                                *)

Entry(class, data, path) ==
    [IsProperty |-> TRUE, Path |-> path, ExtractPanics |-> FALSE,
     Prop |-> [Class |-> class, Data |-> data]]

\* An entry whose name has no PropertyStreamPrefix
OtherEntry ==
    [IsProperty |-> FALSE, Path |-> <<>>, ExtractPanics |-> FALSE,
     Prop |-> [Class |-> <<>>, Data |-> StringData(<<>>)], Size |-> 0]

NoPath == <<>>

\* The entry of a stream of the container: an mscfb.File with its Name, its
\* content and its Path, and what extractMessageProperty yields for it
File(name, bytes, path) ==
    LET msg == extractMessageProperty(name, bytes)
    IN  [IsProperty |-> HasPrefix(name, PropertyStreamPrefix), Path |-> path,
         ExtractPanics |-> msg.panic,
         Prop |-> msg.prop,
         Name |-> name, Size |-> Len(bytes)]

\* Path of an entry in the storage __recip_version1.0_#<suffix>
RecipientPath(suffix) == <<RecepientStreamPrefix \o <<"#">> \o suffix>>

ShortText == <<"s", "h", "o", "r", "t", " ", "t", "e", "x", "t">>

OtherText == <<"o", "t", "h", "e", "r", " ", "t", "e", "x", "t">>

LongText == <<"a", " ", "c", "o", "n", "s", "i", "d", "e", "r", "a", "b", "l", "y", " ", "l", "o", "n", "g", "e", "r", " ", "p", "l", "a", "i", "n", " ", "t", "e", "x", "t", " ", "b", "o", "d", "y">>

TinyText == <<"t", "i", "n", "y">>

AccentText == <<"e'", "e'", "e'", "e'", "e'", "e'">>

PaddedText == <<" ", "p", "a", "d", "d", "e", "d", "BEL", " ", "t", "e", "x", "t", "LF">>

HtmlText == <<"<", "b", ">", "h", "e", "l", "l", "o", " ", "w", "o", "r", "l", "d", "<", "/", "b", ">">>

X500Text == <<"/", "O", "=", "O", "R", "G", "/", "C", "N", "=", "R", "E", "C", "I", "P", "I", "E", "N", "T", "S">>

BodyEntries ==
    { Entry(c, StringData(t), NoPath) :
        c \in {<<"1","0","0","0">>, <<"1","0","0","1">>},
        t \in {ShortText, OtherText, LongText, NoContent} }
    \cup { Entry(<<"1","0","0","0">>, StringData(TinyText), NoPath),
           Entry(<<"1","0","0","0">>, StringData(AccentText), NoPath),
           Entry(<<"0","f","f","9">>, BytesData(PaddedText), NoPath),
           Entry(<<"1","0","1","3">>, StringData(HtmlText), NoPath),
           Entry(<<"1","0","0","1">>, StringData(X500Text), NoPath),
           OtherEntry }

AddrA == <<"a", "@", "b", ".", "c", "o">>

AddrB == <<"c", "@", "d", ".", "i", "o">>

BadAddr == <<"a", "@", "b">>

\* A well-formed address of 60 characters, and one of 61
Addr60 == [k \in 1..55 |-> "a"] \o <<"@", "b", ".", "c", "o">>

Addr61 == [k \in 1..56 |-> "a"] \o <<"@", "b", ".", "c", "o">>

\* An address whose last label has one letter only
ShortTop == <<"a", "@", "b", ".", "c">>

AddressClass == <<"3","0","0","3">>

\* Storages of recipients #0 to #3, one with a hexadecimal ordinal, one signed
RecipientPaths ==
    { RecipientPath(<<"0", "0", "0", "0", "0", "0", "0", "0">>), RecipientPath(<<"0", "0", "0", "0", "0", "0", "0", "1">>), RecipientPath(<<"0", "0", "0", "0", "0", "0", "0", "2">>),
      RecipientPath(<<"0", "0", "0", "0", "0", "0", "0", "3">>), RecipientPath(<<"0", "0", "0", "0", "0", "0", "0", "A">>) }

AttachmentPath == <<<<"_", "_", "a", "t", "t", "a", "c", "h", "_", "v", "e", "r", "s", "i", "o", "n", "1", ".", "0", "_", "#", "0", "0", "0", "0", "0", "0", "0", "1">>>>

RecipientEntries ==
    { Entry(AddressClass, d, p) :
        d \in {BytesData(AddrA), StringData(AddrB)},
        p \in RecipientPaths \cup {NoPath} }
    \cup { Entry(AddressClass, BytesData(BadAddr), NoPath),
           Entry(AddressClass, BytesData(AddrA), AttachmentPath),
           Entry(<<"C","0","2","5">>, BytesData(AddrB), NoPath),
           Entry(<<"3","9","F","E">>, StringData(AddrA), NoPath),
           Entry(<<"3","0","0","1">>, StringData(<<"B","o","b">>), RecipientPath(<<"-", "0", "0", "0", "0", "0", "0", "1">>)),
           Entry(<<"3","0","0","1">>, StringData(<<"B","o","b">>), <<RecepientStreamPrefix>>),
           OtherEntry }
    \cup { Entry(AddressClass, BytesData(Addr60), NoPath),
           Entry(AddressClass, StringData(Addr61), NoPath),
           Entry(<<"C","0","2","5">>, BytesData(Addr61), NoPath),
           Entry(<<"3","9","F","E">>, StringData(ShortTop), NoPath),
           Entry(AddressClass, BytesData(<<>>), NoPath),
           Entry(AddressClass, Int32Data(5), NoPath) }

ValA == <<"A">>

ValB == <<"B">>

ScalarEntries ==
    { Entry(c, StringData(v), NoPath) :
        c \in {<<"0","0","1","a">>, <<"1","0","3","5">>, <<"0","0","3","7">>,
               <<"0","e","1","d">>, <<"3","f","f","a">>},
        v \in {ValA, ValB} }
    \cup { Entry(c, TimeData(t), NoPath) :
             c \in {<<"3","0","0","7">>, <<"3","0","0","8">>, <<"0","e","0","6">>,
                    <<"0","e","0","f">>},
             t \in {1, 2} }
    \cup { Entry(<<"0","0","3","7">>, StringData(<<>>), NoPath),
           Entry(<<"0","e","0","f">>, TimeData(ZeroTime), NoPath),
           Entry(<<"0","0","3","7">>, BytesData(ValA), NoPath),
           Entry(<<"0","e","0","f">>, StringData(ValA), NoPath),
           OtherEntry }

\* An address that has AddrA as a part
AddrLong == <<"z", "a", "@", "b", ".", "c", "o">>

SenderClass == <<"0","c","1","f">>

SentRepresentingClass == <<"0","0","6","5">>

SenderEntries ==
    { Entry(c, StringData(v), NoPath) :
        c \in {SenderClass, SentRepresentingClass},
        v \in {AddrA, AddrB, AddrLong, BadAddr, <<>>} }
    \cup { Entry(SenderClass, BytesData(AddrA), NoPath), OtherEntry }

\* The name of the property stream of identifier class and value type mapi
StreamName(class, mapi) == PropertyStreamPrefix \o class \o mapi

\* 1970-01-01 00:00:00.001 UTC and 2020-01-01 00:00:00 UTC in 100 ns ticks
\* since 1601-01-01, least significant byte first
Ticks1970 == <<16, 167, 62, 213, 222, 177, 157, 1>>

Ticks2020 == <<0, 0, 5, 105, 54, 192, 213, 1>>

TimeClasses == {<<"0", "E", "0", "F">>, <<"0", "E", "0", "6">>, <<"3", "0", "0", "7">>, <<"3", "0", "0", "8">>}

\* The text "Hi" in UTF-16, with its terminator
HiUnicode == <<72, 0, 105, 0, 0, 0>>

TimeEntries ==
    { File(StreamName(c, <<"0", "0", "4", "0">>), b, NoPath) :
        c \in TimeClasses, b \in {Ticks1970, Ticks2020} }
    \cup { File(StreamName(<<"0", "E", "0", "F">>, <<"0", "0", "4", "0">>), <<>>, NoPath),
           File(StreamName(<<"0", "E", "0", "F">>, <<"0", "0", "4", "0">>), <<0, 128, 62>>, NoPath),
           File(StreamName(<<"3", "0", "0", "7">>, <<"1", "0", "4", "0">>), Ticks2020, NoPath),
           File(StreamName(<<"0", "0", "3", "7">>, <<"0", "0", "1", "F">>), HiUnicode, NoPath),
           File(StreamName(<<"0", "0", "1", "A">>, <<"0", "0", "1", "E">>), <<73, 80, 77>>, NoPath),
           File(StreamName(<<"0", "E", "1", "D">>, <<"0", "0", "1", "F">>), <<>>, NoPath),
           File(StreamName(<<"3", "F", "F", "A">>, <<"0", "0", "1", "E">>), <<66, 111, 98>>, NoPath),
           File(<<"_", "_", "p", "r", "o", "p", "e", "r", "t", "i", "e", "s", "_", "v", "e", "r", "s", "i", "o", "n", "1", ".", "0">>, Ticks2020, NoPath) }

\* Names with the prefix of a property stream: well formed, too short, with
\* a segment that is not hexadecimal, with more than eight characters, with a
\* signed value type
NameEntries ==
    { File(PropertyStreamPrefix \o n, HiUnicode, NoPath) :
        n \in { <<"0", "0", "3", "7", "0", "0", "1", "F">>, <<"1", "0", "0", "0", "0", "0", "1", "f">>, <<"0", "E", "1", "D", "0", "0", "1", "F">>, <<"0", "0", "3", "7", "0", "0", "1">>, <<>>,
                <<"Z", "Z", "Z", "Z", "0", "0", "1", "F">>, <<"0", "0", "3", "7", "0", "0", "Z", "Z">>, <<"0", "0", "3", "7", "0", "0", "1", "F", "x", "y", "z">>, <<"0", "0", "3", "7", "-", "0", "0", "1">>, <<"3", "F", "F", "A", "+", "0", "1", "F">> } }
    \cup { File(<<"_", "_", "n", "a", "m", "e", "i", "d", "_", "v", "e", "r", "s", "i", "o", "n", "1", ".", "0">>, <<>>, NoPath) }

\* Two identifiers without a case in SetProperties, 0x7777 and 0x00ff, with
\* values of several dynamic types; identifier zero and a class that is not
\* a number
BagEntries ==
    { Entry(c, d, NoPath) :
        c \in {<<"7", "7", "7", "7">>, <<"0", "0", "f", "f">>},
        d \in {StringData(ValA), StringData(ValB), StringData(<<>>), BytesData(ValA),
               Int32Data(5), BoolData(TRUE), StringsData(<<ValA, ValB>>),
               OtherData("float64")} }
    \cup { Entry(<<"0", "0", "0", "0">>, StringData(ValA), NoPath),
           Entry(<<"Z", "Z", "Z", "Z">>, StringData(ValA), NoPath),
           OtherEntry }

\* The text s in UTF-16, low byte first, for characters below U+0080
RECURSIVE Utf16Bytes(_)
Utf16Bytes(s) == IF s = <<>> THEN <<>> ELSE <<Utf8(Head(s))[1], 0>> \o Utf16Bytes(Tail(s))

\* Streams of several kinds, inside and outside a recipient storage, and
\* entries that are not property streams, with and without content
CallEntries ==
    { File(StreamName(<<"0", "E", "0", "F">>, <<"0", "0", "4", "0">>), Ticks2020, NoPath),
      File(StreamName(<<"0", "E", "0", "F">>, <<"0", "0", "4", "0">>), <<0, 128, 62>>, NoPath),
      File(StreamName(<<"0", "0", "3", "7">>, <<"0", "0", "1", "F">>), HiUnicode, NoPath),
      File(StreamName(<<"0", "0", "3", "7">>, <<"0", "1", "0", "2">>), <<72, 105>>, NoPath),
      File(StreamName(<<"1", "0", "0", "0">>, <<"0", "0", "1", "F">>), Utf16Bytes(ShortText), NoPath),
      File(StreamName(<<"1", "0", "1", "3">>, <<"0", "1", "0", "2">>), <<60, 98, 62, 104, 101, 108, 108, 111, 32, 119, 60, 47, 98, 62>>, NoPath),
      File(StreamName(<<"0", "C", "1", "F">>, <<"0", "0", "1", "F">>), Utf16Bytes(AddrA), NoPath),
      File(StreamName(<<"7", "7", "7", "7">>, <<"0", "0", "1", "F">>), HiUnicode, NoPath),
      File(StreamName(<<"7", "7", "7", "7">>, <<"0", "0", "0", "3">>), <<5, 0, 0, 0>>, NoPath),
      File(StreamName(<<"3", "0", "0", "3">>, <<"0", "0", "1", "F">>), Utf16Bytes(AddrB), RecipientPath(<<"0", "0", "0", "0", "0", "0", "0", "2">>)),
      File(StreamName(<<"3", "0", "0", "3">>, <<"0", "1", "0", "2">>), <<97, 64, 98, 46, 99, 111>>, RecipientPath(<<"0", "0", "0", "0", "0", "0", "0", "1">>)),
      File(StreamName(<<"3", "0", "0", "1">>, <<"0", "0", "1", "F">>), HiUnicode, <<RecepientStreamPrefix>>),
      File(StreamName(<<"Z", "Z", "Z", "Z">>, <<"0", "0", "1", "F">>), HiUnicode, NoPath),
      File(<<"_", "_", "p", "r", "o", "p", "e", "r", "t", "i", "e", "s", "_", "v", "e", "r", "s", "i", "o", "n", "1", ".", "0">>, Ticks2020, NoPath),
      File(<<"_", "_", "n", "a", "m", "e", "i", "d", "_", "v", "e", "r", "s", "i", "o", "n", "1", ".", "0">>, <<>>, NoPath) }

\* Five letters and five control characters: ten bytes, of which five are kept
ControlText == <<"a", "b", "c", "d", "e">> \o <<"BEL", "BEL", "BEL", "BEL", "BEL">>

\* Identifiers of the body case and of the HTML case, as the names carry them
BodyClasses == {<<"1", "0", "0", "0">>, <<"0", "f", "f", "9">>}

HtmlClasses == {<<"1", "0", "0", "1">>, <<"0", "c", "2", "5">>}

\* Values for the body and HTML identifiers that the validator accepts and
\* rejects, a value of another type, and acceptable texts under identifiers
\* of other cases (0xC025 is an address identifier, 0x0c25 an HTML one)
CollectEntries ==
    { Entry(<<"1", "0", "0", "0">>, StringData(LongText), NoPath),
      Entry(<<"1", "0", "0", "0">>, StringData(TinyText), NoPath),
      Entry(<<"1", "0", "0", "0">>, BytesData(PaddedText), NoPath),
      Entry(<<"1", "0", "0", "0">>, Int32Data(5), NoPath),
      Entry(<<"0", "f", "f", "9">>, StringData(X500Text), NoPath),
      Entry(<<"1", "0", "0", "0">>, StringData(OtherText), RecipientPath(<<"0", "0", "0", "0", "0", "0", "0", "1">>)),
      Entry(<<"1", "0", "0", "1">>, StringData(HtmlText), NoPath),
      Entry(<<"1", "0", "0", "1">>, BytesData(LongText), NoPath),
      Entry(<<"0", "c", "2", "5">>, StringData(TinyText), NoPath),
      Entry(<<"0", "c", "2", "5">>, StringData(ShortText), NoPath),
      Entry(<<"C", "0", "2", "5">>, StringData(LongText), NoPath),
      Entry(<<"0", "0", "3", "7">>, StringData(LongText), NoPath),
      Entry(<<"1", "0", "0", "0">>, StringData(ControlText), NoPath),
      Entry(<<"1", "0", "0", "1">>, StringData(AccentText), NoPath),
      OtherEntry }

\* Identifiers of cases of SetProperties that have no statement, and class
\* segments that do not parse or parse to zero
SkipClasses == {<<"1", "0", "0", "5">>, <<"1", "0", "1", "e">>, <<"3", "0", "1", "3">>, <<"8", "0", "0", "0">>, <<"0", "0", "4", "3">>, <<"0", "C", "2", "4">>}

ZeroClasses == {<<"0", "0", "0", "0">>, <<"Z", "Z", "Z", "Z">>, <<>>}

\* Streams of identifiers that are skipped and of identifier zero, with values
\* of several types, inside and outside a recipient storage, among streams
\* that fill fields, Properties, the candidate lists and the cursor
SkipEntries ==
    { Entry(<<"1", "0", "0", "5">>, StringData(LongText), NoPath),
      Entry(<<"1", "0", "1", "e">>, BytesData(LongText), NoPath),
      Entry(<<"3", "0", "1", "3">>, TimeData(5), NoPath),
      Entry(<<"8", "0", "0", "0">>, StringsData(<<ValA, ValB>>), NoPath),
      Entry(<<"0", "0", "4", "3">>, Int32Data(5), NoPath),
      Entry(<<"0", "C", "2", "4">>, StringData(AddrA), NoPath),
      Entry(<<"1", "0", "0", "5">>, StringData(ValA), RecipientPath(<<"0", "0", "0", "0", "0", "0", "0", "1">>)),
      Entry(<<"0", "0", "0", "0">>, StringData(LongText), NoPath),
      Entry(<<"Z", "Z", "Z", "Z">>, StringData(AddrA), NoPath),
      File(StreamName(<<"0", "0", "3", "7">>, <<"0", "0", "Z", "Z">>), Utf16Bytes(ValA), NoPath),
      File(PropertyStreamPrefix \o <<"0", "0", "3", "7", "0", "0", "1">>, Utf16Bytes(ValA), NoPath),
      Entry(<<"1", "0", "1", "0">>, StringData(ValA), NoPath),
      Entry(<<"0", "0", "3", "7">>, StringData(ValB), NoPath),
      Entry(<<"1", "0", "0", "0">>, StringData(LongText), NoPath),
      Entry(<<"3", "0", "0", "3">>, BytesData(AddrA), RecipientPath(<<"0", "0", "0", "0", "0", "0", "0", "2">>)) }

\* n replacement characters
Replacements(n) == [k \in 1..n |-> "U+FFFD"]

\* Texts of letters with replacement characters at the end: 3 of 8, 2 of 10,
\* 3 of 10, 4 of 10, 3 of 12, and 5 and 6 of 45 characters
ReplacementTexts ==
    { <<"a", "b", "c", "d", "e">> \o Replacements(3),
      <<"a", "b", "c", "d", "e", "f", "g", "h">> \o Replacements(2),
      <<"a", "b", "c", "d", "e", "f", "g">> \o Replacements(3),
      <<"a", "b", "c", "d", "e", "f">> \o Replacements(4),
      <<"a", "b", "c", "d", "e", "f", "g", "h", "i">> \o Replacements(3),
      [k \in 1..40 |-> "a"] \o Replacements(5),
      [k \in 1..39 |-> "a"] \o Replacements(6) }

ReplacementEntries ==
    { Entry(<<"1", "0", "0", "0">>, StringData(t), NoPath) : t \in ReplacementTexts }
    \cup { Entry(<<"1", "0", "0", "1">>, BytesData(<<"a", "b", "c", "d", "e", "f", "g">> \o Replacements(3)), NoPath),
           Entry(<<"1", "0", "0", "0">>, StringData(LongText), NoPath),
           OtherEntry }

\* Tick counts, least significant byte first: 1970-01-01 00:00:00 UTC, the
\* same plus 19999 ticks, 1900-01-01, tick 0 (1601-01-01), the largest count
\* and the largest positive int64
TicksEpoch == <<0, 128, 62, 213, 222, 177, 157, 1>>

TickPayloads ==
    { TicksEpoch,
      <<31, 206, 62, 213, 222, 177, 157, 1>>,
      Ticks2020,
      <<0, 64, 224, 253, 59, 55, 79, 1>>,
      <<0, 0, 0, 0, 0, 0, 0, 0>>,
      <<255, 255, 255, 255, 255, 255, 255, 255>>,
      <<255, 255, 255, 255, 255, 255, 255, 127>> }

\* System-time streams of an identifier kept in Properties and of the submit
\* time, and a stream of several system times
TickEntries ==
    { File(StreamName(c, <<"0", "0", "4", "0">>), b, NoPath) :
        c \in {<<"7", "7", "7", "7">>, <<"0", "E", "0", "6">>}, b \in TickPayloads }
    \cup { File(StreamName(<<"7", "7", "7", "7">>, <<"1", "0", "4", "0">>), TicksEpoch \o Ticks2020, NoPath),
           File(<<"_", "_", "p", "r", "o", "p", "e", "r", "t", "i", "e", "s", "_", "v", "e", "r", "s", "i", "o", "n", "1", ".", "0">>, TicksEpoch, NoPath) }

\* Contents of string-array streams with the array that the terminators
\* delimit: "ab\0cd\0", "ab\0cd", "", "\0", "ab" and "ab\0\0cd\0"
ArrayCases ==
    { <<<<"a", "b", "NUL", "c", "d", "NUL">>, <<<<"a", "b">>, <<"c", "d">>>>>>,
      <<<<"a", "b", "NUL", "c", "d">>, <<<<"a", "b">>, <<"c", "d">>>>>>,
      <<<<>>, <<>>>>,
      <<<<"NUL">>, <<<<>>>>>>,
      <<<<"a", "b">>, <<<<"a", "b">>>>>>,
      <<<<"a", "b", "NUL", "NUL", "c", "d", "NUL">>, <<<<"a", "b">>, <<>>, <<"c", "d">>>>>> }

\* The stream of the MIME tag as an array of 8-bit strings and as an array of
\* Unicode strings
String8Array(text) == File(StreamName(<<"8", "0", "0", "4">>, <<"1", "0", "1", "E">>), BytesOf(text), NoPath)

UnicodeArray(text) == File(StreamName(<<"8", "0", "0", "4">>, <<"1", "0", "1", "F">>), Utf16Bytes(text), NoPath)

ArrayEntries ==
    { String8Array(c[1]) : c \in ArrayCases }
    \cup { UnicodeArray(c[1]) : c \in ArrayCases }
    \cup { File(StreamName(<<"7", "7", "7", "7">>, <<"1", "0", "1", "F">>), HiUnicode, NoPath),
           File(<<"_", "_", "n", "a", "m", "e", "i", "d", "_", "v", "e", "r", "s", "i", "o", "n", "1", ".", "0">>, <<0>>, NoPath) }

\* Addresses as bytes in the storages of ordinals 0 to 3, in one of a
\* hexadecimal ordinal and outside the storages, addresses as strings, and a
\* display name in a storage of a signed ordinal
CursorEntries ==
    { Entry(AddressClass, BytesData(AddrA), p) : p \in RecipientPaths \cup {NoPath} }
    \cup { Entry(AddressClass, StringData(AddrB), RecipientPath(<<"0", "0", "0", "0", "0", "0", "0", "2">>)),
           Entry(AddressClass, StringData(AddrB), NoPath),
           Entry(<<"C", "0", "2", "5">>, BytesData(AddrB), NoPath),
           Entry(<<"3", "0", "0", "1">>, StringData(<<"B", "o", "b">>), RecipientPath(<<"-", "0", "0", "0", "0", "0", "0", "1">>)),
           OtherEntry }

----------------------------------------------------------------------------
(* The state machine                                                       *)

\* Entries the container may hold before the traversal ends
MaxEntries == 3

\* Calls of CalculateFinalBody on one record, the decode's own included
MaxFinalize == 2

\* ParseMsgFile has made the record, opened the file and read the container
Init ==
    /\ res = NewMessage
    /\ pc = "entries"
    /\ impl \in Impls
    /\ call = [op |-> "parseMsgFile", entry |-> OtherEntry]
    /\ nentries = 0
    /\ nfinal = 0
    /\ f = "open"
    /\ debug = FALSE
    /\ trace = 0

\* processEntries: doc.Next() yields an entry, of the set E
ProcessEntry(E) ==
    \E entry \in E :
        /\ pc = "entries"
        /\ nentries < MaxEntries
        /\ LET r == processEntry(impl, entry, res, debug)
           IN  /\ res' = r.res
               /\ pc' = IF r.panic THEN "panicked" ELSE "entries"
               /\ trace' = trace + r.trace
        /\ call' = [op |-> "entry", entry |-> entry]
        /\ nentries' = nentries + 1
        /\ UNCHANGED <<impl, nfinal, f, debug>>

\* doc.Next() reports the end: processEntries returns nil, parseMsgFile returns res
EndOfEntries ==
    /\ pc = "entries"
    /\ res' = parseMsgFileEnd(impl, res)
    /\ nfinal' = IF impl = "msgparser" THEN nfinal + 1 ELSE nfinal
    /\ pc' = "returned"
    /\ call' = [op |-> "return", entry |-> OtherEntry]
    /\ UNCHANGED <<impl, nentries, f, debug, trace>>

\* The caller, who owns the returned record, calls res.CalculateFinalBody()
CallerFinalizes ==
    /\ pc = "returned"
    /\ nfinal < MaxFinalize
    /\ res' = CalculateFinalBody(res)
    /\ nfinal' = nfinal + 1
    /\ call' = [op |-> "CalculateFinalBody", entry |-> OtherEntry]
    /\ UNCHANGED <<pc, impl, nentries, f, debug, trace>>

\* parseMsgFile is entered, from ParseMsgFile or from ParseMsgFileWithDebug:
\* the record is made, nothing is opened yet
InitCall ==
    /\ res = NewMessage
    /\ pc = "os.Open"
    /\ impl \in Impls
    /\ call = [op |-> "parseMsgFile", entry |-> OtherEntry]
    /\ nentries = 0
    /\ nfinal = 0
    /\ f = "nil"
    /\ debug \in BOOLEAN
    /\ trace = 0

\* f, err := os.Open(file); if err != nil { return nil, err }
Open ==
    /\ pc = "os.Open"
    /\ \E err \in BOOLEAN :
          /\ f' = IF err THEN "nil" ELSE "open"
          /\ pc' = IF err THEN "failed" ELSE "mscfb.New"
          /\ call' = [op |-> IF err THEN "return" ELSE "os.Open", entry |-> OtherEntry]
    /\ UNCHANGED <<res, impl, nentries, nfinal, debug, trace>>

\* doc, err := mscfb.New(f); if err != nil { return nil, err }
NewReader ==
    /\ pc = "mscfb.New"
    /\ \E err \in BOOLEAN :
          /\ pc' = IF err THEN "failed" ELSE "entries"
          /\ call' = [op |-> IF err THEN "return" ELSE "mscfb.New", entry |-> OtherEntry]
    /\ UNCHANGED <<res, impl, nentries, nfinal, f, debug, trace>>

\* doc.Next() reports an error that is not the end of the entries: the loop of
\* processEntries ends on it as on the end, processEntries returns nil, and
\* parseMsgFile returns res
TraversalFails ==
    /\ pc = "entries"
    /\ res' = parseMsgFileEnd(impl, res)
    /\ nfinal' = IF impl = "msgparser" THEN nfinal + 1 ELSE nfinal
    /\ pc' = "returned"
    /\ call' = [op |-> "return after error", entry |-> OtherEntry]
    /\ UNCHANGED <<impl, nentries, f, debug, trace>>

Next == ProcessEntry(BodyEntries) \/ EndOfEntries \/ CallerFinalizes

\* Decodes of containers of body and HTML streams
Spec == Init /\ [][Next]_vars

NextRecipients == ProcessEntry(RecipientEntries) \/ EndOfEntries \/ CallerFinalizes

\* Decodes of containers of address streams, inside and outside recipient storages
SpecRecipients == Init /\ [][NextRecipients]_vars

NextScalars == ProcessEntry(ScalarEntries) \/ EndOfEntries \/ CallerFinalizes

\* Decodes of containers of the streams of the first-wins fields
SpecScalars == Init /\ [][NextScalars]_vars

NextSender == ProcessEntry(SenderEntries) \/ EndOfEntries \/ CallerFinalizes

\* Decodes of containers of sender and represented-sender address streams
SpecSender == Init /\ [][NextSender]_vars

NextTimes == ProcessEntry(TimeEntries) \/ EndOfEntries \/ CallerFinalizes

\* Decodes of containers of system-time streams
SpecTimes == Init /\ [][NextTimes]_vars

NextCall ==
    \/ Open
    \/ NewReader
    \/ ProcessEntry(CallEntries)
    \/ EndOfEntries
    \/ TraversalFails
    \/ CallerFinalizes

\* Calls of ParseMsgFile from the opening of the file on, the failures of the
\* file system and of the container reader included
SpecCall == InitCall /\ [][NextCall]_vars

NextCollect == ProcessEntry(CollectEntries) \/ EndOfEntries \/ CallerFinalizes

\* Decodes of containers of body and HTML streams among streams of other cases
SpecCollect == Init /\ [][NextCollect]_vars

NextSkip == ProcessEntry(SkipEntries) \/ EndOfEntries \/ CallerFinalizes

\* Decodes of containers with streams of skipped identifiers and of identifier zero
SpecSkip == Init /\ [][NextSkip]_vars

NextReplacement == ProcessEntry(ReplacementEntries) \/ EndOfEntries \/ CallerFinalizes

\* Decodes of containers of body streams that hold replacement characters
SpecReplacement == Init /\ [][NextReplacement]_vars

NextTicks == ProcessEntry(TickEntries) \/ EndOfEntries \/ CallerFinalizes

\* Decodes of containers of system-time streams of tick counts of every size
SpecTicks == Init /\ [][NextTicks]_vars

NextArrays == ProcessEntry(ArrayEntries) \/ EndOfEntries \/ CallerFinalizes

\* Decodes of containers of string-array streams
SpecArrays == Init /\ [][NextArrays]_vars

NextCursor == ProcessEntry(CursorEntries) \/ EndOfEntries \/ CallerFinalizes

\* Decodes of containers of address streams in and out of recipient storages
SpecCursor == Init /\ [][NextCursor]_vars

NextNames == ProcessEntry(NameEntries) \/ EndOfEntries \/ CallerFinalizes

\* Decodes of containers of streams with well-formed and malformed names
SpecNames == Init /\ [][NextNames]_vars

NextBag == ProcessEntry(BagEntries) \/ EndOfEntries \/ CallerFinalizes

\* Decodes of containers of streams whose identifier has no case of its own
SpecBag == Init /\ [][NextBag]_vars

----------------------------------------------------------------------------
(* Finalization: claims C1 to C7                                           *)

\* CalculateFinalBody has run on the record
Finalized == nfinal >= 1

\* b is a text of cands of maximal len(), and the first of that length
FirstOfMaximalLength(b, cands) ==
    \E i \in 1..Len(cands) :
        /\ cands[i] = b
        /\ \A j \in 1..Len(cands) : GoLen(cands[j]) <= GoLen(b)
        /\ \A j \in 1..(i - 1) : GoLen(cands[j]) < GoLen(b)

Collected(m) ==
    {m.bodyCandidates[i] : i \in 1..Len(m.bodyCandidates)}
    \cup {m.htmlCandidates[i] : i \in 1..Len(m.htmlCandidates)}

C3_CrossFill ==
    Finalized =>
        /\ (res.bodyCandidates # <<>> /\ res.htmlCandidates = <<>>) =>
               /\ FirstOfMaximalLength(res.BodyPlainText, res.bodyCandidates)
               /\ res.BodyHTML = res.BodyPlainText
        /\ (res.htmlCandidates # <<>> /\ res.bodyCandidates = <<>>) =>
               /\ FirstOfMaximalLength(res.BodyHTML, res.htmlCandidates)
               /\ res.BodyPlainText = res.BodyHTML

\* C3 witness: the example of the specification.
C3_Witness ==
    /\ Finalized
    /\ res.bodyCandidates = <<ShortText, LongText>>
    /\ res.htmlCandidates = <<>>
    /\ res.BodyHTML = LongText

C5_Idempotent ==
    [][(Finalized /\ nfinal' = nfinal + 1) =>
           /\ res'.BodyPlainText = res.BodyPlainText
           /\ res'.BodyHTML = res.BodyHTML]_vars

\* C5 witness: a second finalization, of a record that holds candidates.
C5_Witness ==
    nfinal >= 2 /\ res.bodyCandidates # <<>> /\ res.htmlCandidates # <<>>

\* C6 as stated: after CalculateFinalBody both candidate lists are empty.
C6_ListsCleared ==
    Finalized => res.bodyCandidates = <<>> /\ res.htmlCandidates = <<>>

\* C6 amended: CalculateFinalBody reads the candidate lists and leaves both as
\* they were; every step that finalizes keeps them.
C6_ListsKept ==
    [][nfinal' # nfinal =>
           /\ res'.bodyCandidates = res.bodyCandidates
           /\ res'.htmlCandidates = res.htmlCandidates]_vars

\* C6 witness: finalized, and candidates are still in both lists.
C6_Witness ==
    Finalized /\ Len(res.bodyCandidates) >= 1 /\ Len(res.htmlCandidates) >= 1
      /\ call.op = "CalculateFinalBody"

\* C7: when the decode returns its record, finalization has run exactly once
\* and the record does not have both bodies empty.
C7_DecodeFinalizesOnce ==
    call.op = "return" =>
        /\ nfinal = 1
        /\ ~(res.BodyPlainText = <<>> /\ res.BodyHTML = <<>>)

\* The step just taken visited a property entry without panicking
EntryVisited == call'.op = "entry" /\ nentries' = nentries + 1 /\ pc' = "entries"

\* The entry holds a valid address for one of the three address identifiers,
\* decoded as a byte sequence or as a string
CarriesValidAddress(entry) ==
    /\ entry.IsProperty
    /\ ParseInt(entry.Prop.Class) \in AddressIds
    /\ entry.Prop.Data.shape \in {"[]uint8", "string"}
    /\ isValidEmail(entry.Prop.Data.s)

\* The list named by the cursor gains the address and a semicolon, the others keep their value
RoutedByCursor(lr, address) ==
    /\ res'.To = IF lr = 0 THEN res.To \o address \o Semicolon ELSE res.To
    /\ res'.CC = IF lr = 1 THEN res.CC \o address \o Semicolon ELSE res.CC
    /\ res'.BCC = IF lr = 2 THEN res.BCC \o address \o Semicolon ELSE res.BCC

\* C8: a valid address held by 0x3003, 0xC025 or 0x39FE, whatever its decoded
\* shape, is appended to To when the cursor (as it stands when the property is
\* dispatched) is 0, to CC when 1, to BCC when 2, and to no list otherwise
C8_RoutedByLastRecipient ==
    [][(EntryVisited /\ CarriesValidAddress(call'.entry))
         => RoutedByCursor(res'.LastRecipient, call'.entry.Prop.Data.s)]_vars

\* The ordinal named by the storage of each path of RecipientPaths and of the
\* signed one, written out by hand; paths outside this table name no ordinal
OrdinalOf(path) ==
    CASE path = RecipientPath(<<"0", "0", "0", "0", "0", "0", "0", "0">>) -> [numeric |-> TRUE, n |-> 0]
      [] path = RecipientPath(<<"0", "0", "0", "0", "0", "0", "0", "1">>) -> [numeric |-> TRUE, n |-> 1]
      [] path = RecipientPath(<<"0", "0", "0", "0", "0", "0", "0", "2">>) -> [numeric |-> TRUE, n |-> 2]
      [] path = RecipientPath(<<"0", "0", "0", "0", "0", "0", "0", "3">>) -> [numeric |-> TRUE, n |-> 3]
      [] path = RecipientPath(<<"-", "0", "0", "0", "0", "0", "0", "1">>) -> [numeric |-> TRUE, n |-> 0 - 1]
      [] OTHER -> [numeric |-> FALSE, n |-> 0]

C10_FirstWins ==
    [][/\ \A field \in {"MessageClass", "MessageID", "Subject", "FromName"} :
             res[field] # <<>> => res'[field] = res[field]
       /\ \A field \in {"Date", "ClientSubmitTime", "CreationDate", "LastModificationDate"} :
             ~IsZero(res[field]) => res'[field] = res[field]]_vars

\* C10 witness: Subject was set to ValA, Date to 1, and the entry just visited
\* offered ValB for Subject through the other identifier, 0x0e1d
C10_Witness ==
    /\ call.op = "entry"
    /\ call.entry = Entry(<<"0","e","1","d">>, StringData(ValB), NoPath)
    /\ pc = "entries"
    /\ res.Subject = ValA
    /\ res.Date = 1

----------------------------------------------------------------------------
(* The dispatcher: claims C11 and following                                *)

\* The step just taken dispatched a string value v under identifier class
\* to a record whose FromEmail was not empty
SenderValueArrives(class, v) ==
    /\ call'.op = "entry" /\ nentries' = nentries + 1
    /\ call'.entry = Entry(class, StringData(v), NoPath)
    /\ res.FromEmail # <<>>

\* C11 as stated: a value arriving under 0xc1f or 0x65 at a non-empty
\* FromEmail is put after the existing content, separated by ", ", and a
\* value that already appears in FromEmail leaves it unchanged
C11_AppendedAfter ==
    [][\A c \in {SenderClass, SentRepresentingClass} :
         \A v \in {AddrA, AddrB, AddrLong} :
            SenderValueArrives(c, v) =>
                res'.FromEmail = IF Contains(res.FromEmail, v) THEN res.FromEmail
                                 ELSE res.FromEmail \o CommaSpace \o v]_vars

\* C11 amended: a well-formed value arriving under 0xc1f or 0x65 at a
\* non-empty FromEmail is put before the existing content, separated by ", "
\* (the latest value comes first), and a value that already appears in
\* FromEmail, even as part of a longer address, leaves it unchanged
C11_PutBefore ==
    [][\A c \in {SenderClass, SentRepresentingClass} :
         \A v \in {AddrA, AddrB, AddrLong} :
            SenderValueArrives(c, v) =>
                res'.FromEmail = IF Contains(res.FromEmail, v) THEN res.FromEmail
                                 ELSE v \o CommaSpace \o res.FromEmail]_vars

\* C11 witness: AddrA came first, AddrB second under the other identifier,
\* and AddrA has just arrived again
C11_Witness ==
    /\ call.op = "entry"
    /\ call.entry = Entry(SenderClass, StringData(AddrA), NoPath)
    /\ nentries = 3
    /\ res.FromEmail = AddrB \o CommaSpace \o AddrA

\* C12: whatever the identifier and the shape of the decoded value,
\* SetProperties returns normally and the decode goes on with the next entry
C12_TypeMismatchNeverAborts ==
    [][(call'.op = "entry" /\ nentries' = nentries + 1) => pc' = "entries"]_vars

\* The field of the record that the time identifier of a stream name sets
TimeField(name) ==
    CASE name = StreamName(<<"0", "E", "0", "F">>, <<"0", "0", "4", "0">>) -> "Date"
      [] name = StreamName(<<"0", "E", "0", "6">>, <<"0", "0", "4", "0">>) -> "ClientSubmitTime"
      [] name = StreamName(<<"3", "0", "0", "7">>, <<"0", "0", "4", "0">>) -> "CreationDate"
      [] name = StreamName(<<"3", "0", "0", "8">>, <<"0", "0", "4", "0">>) -> "LastModificationDate"

\* C13: when the decode visits a stream 0x0e0f, 0x0e06, 0x3007 or 0x3008 of
\* value type 0x0040 that holds 8 bytes, the decode goes on and the field of
\* that identifier is set (not the zero time) from then on
C13_TimestampsDecoded ==
    [][(/\ call'.op = "entry" /\ nentries' = nentries + 1
        /\ \E c \in TimeClasses : call'.entry.Name = StreamName(c, <<"0", "0", "4", "0">>)
        /\ call'.entry.Size = 8)
         => (pc' = "entries" /\ ~IsZero(res'[TimeField(call'.entry.Name)]))]_vars

\* C14: a failure to open the input, to read the container or to traverse
\* its entries makes the decode return an error and no record; no record is
\* returned as a success after such a failure
C14_FatalErrors ==
    [][/\ (pc = "os.Open" /\ f' = "nil") => pc' = "failed"
       /\ (pc = "mscfb.New" /\ pc' # "entries") => pc' = "failed"
       /\ call'.op = "return after error" => pc' = "failed"]_vars

\* C15: when ParseMsgFile has returned, with a record or with an error, the
\* file it opened is closed
C15_FileClosed == pc \in {"returned", "failed"} => f \in {"nil", "closed"}

\* The tag of the entry just visited
VisitedTag == [Class |-> call.entry.Prop.Class, Mapi |-> call.entry.Prop.Mapi]

\* The stream just visited is the one named by the prefix and n
Visited(n) == call.op = "entry" /\ call.entry.Name = PropertyStreamPrefix \o n

\* What holds of the tags under both readings of C16: the well-formed names
\* give their two segments, characters after the eighth are ignored, a name
\* of fewer than eight characters and a value type that is not hexadecimal
\* give the empty tag
TagsOfNames ==
    /\ Visited(<<"0", "0", "3", "7", "0", "0", "1", "F">>) => VisitedTag = [Class |-> <<"0", "0", "3", "7">>, Mapi |-> 31]
    /\ Visited(<<"1", "0", "0", "0", "0", "0", "1", "f">>) => VisitedTag = [Class |-> <<"1", "0", "0", "0">>, Mapi |-> 31]
    /\ Visited(<<"0", "E", "1", "D", "0", "0", "1", "F">>) => VisitedTag = [Class |-> <<"0", "E", "1", "D">>, Mapi |-> 31]
    /\ Visited(<<"0", "0", "3", "7", "0", "0", "1", "F", "x", "y", "z">>) => VisitedTag = [Class |-> <<"0", "0", "3", "7">>, Mapi |-> 31]
    /\ Visited(<<"0", "0", "3", "7", "0", "0", "1">>) => VisitedTag = EmptyTag
    /\ Visited(<<>>) => VisitedTag = EmptyTag
    /\ Visited(<<"0", "0", "3", "7", "0", "0", "Z", "Z">>) => VisitedTag = EmptyTag

\* C16 as stated: moreover a property-id segment that is not hexadecimal
\* gives the empty tag
C16_EmptyTagOnAnyBadSegment ==
    /\ TagsOfNames
    /\ Visited(<<"Z", "Z", "Z", "Z", "0", "0", "1", "F">>) => VisitedTag = EmptyTag

\* C16 amended: the property-id segment is not examined: the first four
\* characters are returned as they are; the value type is read as a
\* hexadecimal number that may carry a sign
C16_ClassSegmentUnchecked ==
    /\ TagsOfNames
    /\ Visited(<<"Z", "Z", "Z", "Z", "0", "0", "1", "F">>) => VisitedTag = [Class |-> <<"Z", "Z", "Z", "Z">>, Mapi |-> 31]
    /\ Visited(<<"0", "0", "3", "7", "-", "0", "0", "1">>) => VisitedTag = [Class |-> <<"0", "0", "3", "7">>, Mapi |-> 0 - 1]
    /\ Visited(<<"3", "F", "F", "A", "+", "0", "1", "F">>) => VisitedTag = [Class |-> <<"3", "F", "F", "A">>, Mapi |-> 31]

\* C16 witness: the stream __substg1.0_ZZZZ001F has been visited, its tag
\* has the class ZZZZ, and the decode goes on
C16_Witness ==
    /\ Visited(<<"Z", "Z", "Z", "Z", "0", "0", "1", "F">>)
    /\ call.entry.Prop.Class = <<"Z", "Z", "Z", "Z">>
    /\ pc = "entries"

\* The key of Properties for the two identifiers of BagEntries
BagKey(class) == IF class = <<"7", "7", "7", "7">> THEN 30583 ELSE 255

\* The step just taken dispatched an entry of one of the two identifiers
BagEntryVisited ==
    /\ call'.op = "entry" /\ nentries' = nentries + 1
    /\ call'.entry.Prop.Class \in {<<"7", "7", "7", "7">>, <<"0", "0", "f", "f">>}

\* Properties gained the key k with the value v and is otherwise as before
Stored(k, v) ==
    /\ DOMAIN res'.Properties = DOMAIN res.Properties \cup {k}
    /\ res'.Properties[k] = v
    /\ \A j \in DOMAIN res.Properties : res'.Properties[j] = res.Properties[j]

\* C17 as stated: a value of any variant is stored under a key that is not
\* yet populated, and a populated key is left unchanged
C17_StoredWhateverVariant ==
    [][BagEntryVisited =>
         IF BagKey(call'.entry.Prop.Class) \in DOMAIN res.Properties
         THEN res'.Properties = res.Properties
         ELSE Stored(BagKey(call'.entry.Prop.Class), call'.entry.Prop.Data)]_vars

\* C17 amended: a string is stored under a key that is not yet populated; a
\* value of another variant is dropped and leaves the key unpopulated; a
\* populated key is left unchanged
C17_StringStoredOnce ==
    [][BagEntryVisited =>
         IF BagKey(call'.entry.Prop.Class) \in DOMAIN res.Properties
            \/ call'.entry.Prop.Data.shape # "string"
         THEN res'.Properties = res.Properties
         ELSE Stored(BagKey(call'.entry.Prop.Class), call'.entry.Prop.Data)]_vars

\* C17 witness: 0x7777 holds the first string, ValA, after a byte value that
\* came before it and the string ValB that came after it
C17_Witness ==
    /\ call.op = "entry"
    /\ call.entry = Entry(<<"7", "7", "7", "7">>, StringData(ValB), NoPath)
    /\ nentries = 3
    /\ 30583 \in DOMAIN res.Properties
    /\ res.Properties[30583] = StringData(ValA)

\* The values of RecipientEntries that are not well-formed addresses of at
\* most 60 characters
RejectedAddresses == {BadAddr, Addr61, ShortTop, <<>>}

\* C18: an address property whose value is malformed or longer than 60
\* characters leaves Address, To, CC and BCC unchanged and the decode goes
\* on; the well-formed value of exactly 60 characters is appended to Address
C18_RejectedAddresses ==
    [][(/\ call'.op = "entry" /\ nentries' = nentries + 1
        /\ call'.entry.Prop.Class \in {AddressClass, <<"C", "0", "2", "5">>, <<"3", "9", "F", "E">>})
         => /\ call'.entry.Prop.Data.s \in RejectedAddresses
                 => /\ pc' = "entries"
                    /\ res'.Address = res.Address
                    /\ res'.To = res.To /\ res'.CC = res.CC /\ res'.BCC = res.BCC
            /\ call'.entry.Prop.Data = BytesData(Addr60)
                 => pc' = "entries" /\ res'.Address = Append(res.Address, Addr60)]_vars

\* C18 witness: the address of 60 characters, visited second, is the only
\* element of Address
C18_Witness ==
    /\ call.op = "entry"
    /\ call.entry = Entry(AddressClass, BytesData(Addr60), NoPath)
    /\ nentries = 2
    /\ res.Address = <<Addr60>>

\* C19: the step that the decode takes on an entry with its debug flag leaves
\* the record, and goes on or panics, exactly as the step on the same entry
\* with the other value of the flag; the steps that open the file and end the
\* traversal do not read the flag; and without the flag nothing is traced
C19_DebugOnlyTraces ==
    /\ trace = 0
    /\ [][/\ (call'.op = "entry" /\ nentries' = nentries + 1) =>
                LET other == processEntry(impl, call'.entry, res, ~debug)
                IN  /\ res' = other.res
                    /\ (pc' = "panicked") = other.panic
          /\ ~debug => trace' = 0]_vars

\* C19 witness: ParseMsgFileWithDebug has returned a record with a subject and
\* a body, and has written trace lines
C19_Witness ==
    /\ debug
    /\ pc = "returned"
    /\ trace > 0
    /\ res.Subject # <<>>
    /\ res.bodyCandidates # <<>>

\* The value that the entry brings is a byte slice or a string that the
\* validator accepts
AcceptedValue(entry) ==
    /\ entry.Prop.Data.shape \in {"[]uint8", "string"}
    /\ CleanAndAcceptBodyCandidate(entry.Prop.Data.s, 10).ok

\* C20: as long as no finalization has run, BodyPlainText and BodyHTML are
\* empty; and a SetProperties call changes the candidate lists only by
\* appending the cleaned value to bodyCandidates for a body identifier, to
\* htmlCandidates for an HTML identifier, when the validator accepts it, and
\* leaves both lists as they are in every other case
C20_CollectionWritesNoBody ==
    /\ [](nfinal = 0 => res.BodyPlainText = <<>> /\ res.BodyHTML = <<>>)
    /\ [][(call'.op = "entry" /\ nentries' = nentries + 1) =>
            LET entry == call'.entry
                cleaned == CleanAndAcceptBodyCandidate(entry.Prop.Data.s, 10).cleaned
                toBody == /\ entry.IsProperty /\ entry.Prop.Class \in BodyClasses
                          /\ AcceptedValue(entry)
                toHtml == /\ entry.IsProperty /\ entry.Prop.Class \in HtmlClasses
                          /\ AcceptedValue(entry)
            IN  /\ res'.bodyCandidates =
                       IF toBody THEN Append(res.bodyCandidates, cleaned)
                       ELSE res.bodyCandidates
                /\ res'.htmlCandidates =
                       IF toHtml THEN Append(res.htmlCandidates, cleaned)
                       ELSE res.htmlCandidates
                /\ res'.BodyPlainText = res.BodyPlainText
                /\ res'.BodyHTML = res.BodyHTML]_vars

\* C20 witness: three SetProperties calls and no finalization; a body value
\* and an HTML value were accepted and the last value was rejected
C20_Witness ==
    /\ nfinal = 0 /\ nentries = 3
    /\ Len(res.bodyCandidates) = 1 /\ Len(res.htmlCandidates) = 1
    /\ call.op = "entry" /\ call.entry.IsProperty
    /\ call.entry.Prop.Class \in BodyClasses \cup HtmlClasses
    /\ ~AcceptedValue(call.entry)
    /\ res.BodyPlainText = <<>> /\ res.BodyHTML = <<>>

----------------------------------------------------------------------------
(* The dispatcher, the validator and the value decoder: claims C21 to C28  *)

\* The step just taken dispatched a property of a skipped identifier or of
\* identifier zero
NoOpVisited ==
    /\ call'.op = "entry" /\ nentries' = nentries + 1
    /\ call'.entry.IsProperty
    /\ call'.entry.Prop.Class \in SkipClasses \cup ZeroClasses

\* C21: SetProperties for a property of identifier zero or of a skipped
\* identifier leaves the record as it was before the call: every field, the
\* content of Properties, the candidate lists and LastRecipient (which only the
\* tracker of recipient storages, acting before the call, may have moved)
C21_NoOpProperties ==
    [][NoOpVisited =>
          /\ pc' = "entries"
          /\ res' = IF impl = "msgparser" /\ call'.entry.Path # <<>>
                    THEN processRecipientStream(call'.entry.Path[1], res).res
                    ELSE res]_vars

\* C21 witness: the record has a subject, a stored property, a body candidate
\* and an address routed by a moved cursor, and the last property dispatched
\* was of a skipped identifier or of identifier zero
NoOpDispatched(classes) ==
    /\ call.op = "entry" /\ call.entry.IsProperty
    /\ call.entry.Prop.Class \in classes
    /\ res.LastRecipient = 2 /\ res.Address # <<>>

C21_Witness ==
    /\ nentries = 3
    /\ \/ NoOpDispatched(SkipClasses) /\ res.Subject # <<>>
       \/ NoOpDispatched(ZeroClasses) /\ res.bodyCandidates # <<>>

\* The share of n that the rule allows to a text of n characters
Allowance(n) ==
    IF n < 50 THEN n \div 5 ELSE IF n < 500 THEN n \div 10 ELSE n \div 20

\* The text is long enough, is no X.500 address and has no more than 40% of
\* characters that are neither letters, digits, spaces nor punctuation
PassesEarlierChecks(text) ==
    /\ GoLen(TrimSpace(text)) >= 10
    /\ ~(Contains(text, <<"/","O","=">>) /\ Contains(text, <<"/","C","N","=">>))
    /\ Len(text) > 0
    /\ Len(SelectSeq(text, NonLetter)) * 5 <= Len(text) * 2

\* C22: a body or HTML value that passes the earlier checks is rejected
\* exactly when its number of replacement characters exceeds both the
\* allowance for its number of characters and 2, and is appended to its
\* candidate list otherwise
C22_ReplacementRule ==
    [][(/\ call'.op = "entry" /\ nentries' = nentries + 1
        /\ call'.entry.IsProperty
        /\ PassesEarlierChecks(call'.entry.Prop.Data.s)) =>
          LET text == call'.entry.Prop.Data.s
              count == Count(text, "U+FFFD")
              rejected == count > Allowance(Len(text)) /\ count > 2
              appended == Len(res'.bodyCandidates) + Len(res'.htmlCandidates)
                            = Len(res.bodyCandidates) + Len(res.htmlCandidates) + 1
          IN  appended = ~rejected]_vars

\* C23: a system-time stream (value type 0x40) whose content has fewer than 8
\* bytes is decoded without a panic, to the empty value, and the decode goes on
C23_ShortSystimeIsAbsent ==
    [][(/\ call'.op = "entry" /\ nentries' = nentries + 1
        /\ call'.entry.IsProperty
        /\ call'.entry.Prop.Mapi = 64
        /\ call'.entry.Size < 8) =>
          /\ ~call'.entry.ExtractPanics
          /\ call'.entry.Prop.Data = StringData(<<>>)
          /\ pc' = "entries"]_vars

\* The int64 a, least significant byte first, in n bytes
SignExtend(a, n) ==
    [k \in 1..n |-> IF k <= Len(a) THEN a[k] ELSE IF a[Len(a)] >= 128 THEN 255 ELSE 0]

\* (floor(t / 10000) - 11644473600000) * 1000000 for the tick count t of buf,
\* in 11 bytes, in which the product of an int64 by 1000000 always fits
ExactNanos(buf) ==
    MulU64(SignExtend(SubU64(DivU64(buf, 10000, 0), EpochDifference, 0), 11), Millisecond, 0)

\* The system-time stream of content b was just decoded
TicksVisited(b) ==
    /\ call'.op = "entry" /\ nentries' = nentries + 1
    /\ \E c \in {<<"7", "7", "7", "7">>, <<"0", "E", "0", "6">>} :
           call'.entry = File(StreamName(c, <<"0", "0", "4", "0">>), b, NoPath)

\* C24: the time decoded from a tick count t is the instant
\* floor(t / 10000) - 11644473600000 milliseconds from the Unix epoch, whatever
\* t is, and the instant of tick count 116444736000000000 is the epoch
C24_SystimeExact ==
    [][\A b \in TickPayloads :
          TicksVisited(b) =>
              LET exact == ExactNanos(b)
                  nsec == SubSeq(exact, 1, 8)
              IN  /\ SignExtend(nsec, 11) = exact
                  /\ call'.entry.Prop.Data = StringData(TimeString(nsec))
                  /\ b = TicksEpoch => nsec = <<0, 0, 0, 0, 0, 0, 0, 0>>]_vars

\* C25: a string-array stream decodes to the segments that its terminators
\* delimit, without the empty segment after a trailing terminator only: a last
\* segment without terminator is part of the array, and an empty content
\* gives the empty array
C25_SegmentsKept ==
    [][(call'.op = "entry" /\ nentries' = nentries + 1) =>
          \A c \in ArrayCases :
              call'.entry \in {String8Array(c[1]), UnicodeArray(c[1])} =>
                  /\ ~call'.entry.ExtractPanics
                  /\ call'.entry.Prop.Data = StringsData(c[2])]_vars

\* The texts of the two candidate lists
Candidates == Collected(res)

\* C26 as stated: every text held in bodyCandidates or htmlCandidates has at
\* least 10 characters
C26_AtLeastTenCharacters == \A t \in Candidates : Len(t) >= 10

\* C26, amended: every text held in the candidate lists is non-empty, and a
\* text is appended only for a value whose trimmed text has at least 10 bytes,
\* of which the appended text keeps no more
C26_TrimmedInputAtLeastTen ==
    /\ [](\A t \in Candidates : t # <<>>)
    /\ [][(call'.op = "entry" /\ nentries' = nentries + 1) =>
            \A field \in {"bodyCandidates", "htmlCandidates"} :
                res'[field] # res[field] =>
                    LET input == TrimSpace(call'.entry.Prop.Data.s)
                        text == res'[field][Len(res'[field])]
                    IN  /\ res'[field] = Append(res[field], text)
                        /\ GoLen(input) >= 10
                        /\ GoLen(text) <= GoLen(input)]_vars

\* C26 witness: the lists hold a text of fewer than 10 bytes, left of a value
\* of 10 bytes, and a text of more than 10 bytes and fewer than 10 characters
C26_Witness ==
    /\ nfinal = 0
    /\ \E t \in Candidates : GoLen(t) < 10
    /\ \E t \in Candidates : GoLen(t) >= 10 /\ Len(t) < 10

\* C27: FromEmail is empty or a list that passes ValidateEmailList, in which
\* every element is a valid address and none is empty
C27_FromEmailValidList == res.FromEmail = <<>> \/ ValidateEmailList(res.FromEmail)

\* The step just taken dispatched an address property with a byte value
ByteAddressVisited ==
    /\ call'.op = "entry" /\ nentries' = nentries + 1
    /\ call'.entry.IsProperty
    /\ call'.entry.Prop.Class \in {AddressClass, <<"C", "0", "2", "5">>, <<"3", "9", "F", "E">>}
    /\ call'.entry.Prop.Data.shape = "[]uint8"

====
